---- MODULE Spec2Model ----
(***************************************************************************)
(* DocuMind RAG backend: the indexing pipeline, the document deletion and  *)
(* the query flow of api/controller/rag_controller.py, over the vector     *)
(* store (PineconeService), the parent-chunk store (ParentChunksService)   *)
(* and the per-user document list (UserDocumentsService).                  *)
(*                                                                         *)
(* Scores are hundredths (0.3 is 30).  Ids produced by uuid4 are modelled  *)
(* as tuples <<upload, parent index>> and <<upload, parent index, child    *)
(* index>>, fresh for every indexing call.  The outcome of every call to   *)
(* an external provider (embedding, Pinecone, MongoDB, reranker, LLM) is   *)
(* an input of the action, drawn with \E.                                  *)
(***************************************************************************)
EXTENDS Integers, Sequences, FiniteSets, TLC

VARIABLES
    client,      \* EmbeddingService.client is initialised (not None)
    vectors,     \* records of the Pinecone index
    parents,     \* ids of the parent chunks held in MongoDB parent_chunks
    userDocs,    \* entries of MongoDB user_documents
    nextUpload,  \* number of indexing calls made so far (fresh-id supply)
    idx,         \* what the last process_and_index_document call did
    del,         \* what the last delete_documents call did
    faults,      \* number of provider failures that have happened so far
    resp,        \* what the last orchestrate_rag_flow call answered
    rin,         \* the input of one module taken on its own (the child
                 \* matches handed to one retrieval_module call, the
                 \* content handed to one chunking call, ...)
    rout         \* what that call did with it

vars == <<client, vectors, parents, userDocs, nextUpload, faults, idx, del, resp,
          rin, rout>>

----------------------------------------------------------------------------
(* Bounds and inputs *)

MaxUploads == 2

\* provider failures (embedding, Pinecone, MongoDB, reranker) in one run
MaxFaults == 2

Users == {"A", "B"}
Files == {"f1", "f2"}

\* Some documents, given as what the chunking engine makes of them: a
\* sequence of non-empty parent chunks, each the sequence of its sentences
\* longer than 20 characters (a sentence is named by a number; the sentence
\* in the 100-character overlap of two parents appears in both).
Docs ==
    { <<>>,                    \* blank content: no parent chunk
      << <<>> >>,              \* one parent, no sentence long enough
      << <<1>> >>,             \* one parent, one child
      << <<1, 2>>, <<2>> >> }  \* two parents sharing the overlap sentence

\* EmbeddingService.get_embeddings_batch: default batch_size
batch_size == 20

\* RAGController.orchestrate_rag_flow: similarity_threshold=0.3
QuerySimilarityThreshold == 30

\* similarity scores a query can give a vector (hundredths)
Scores == {20, 50}

\* QueryRequest.top_k (gt=0, le=15) and retrieval_multiplier (gt=1, le=10)
TopKs == {1}
Multipliers == {2}

\* the documents allow-list of a query: none, or one file
DocFilters == {{}, {"f1"}}

\* the inputs of retrieval_module taken on its own: at most MaxMatches child
\* matches, over these parent ids, contents, scores and thresholds
MaxMatches == 4
ParentIdsR == {<<0, k>> : k \in 1..MaxMatches}
ContentsR == {1, 2, 11}
ThresholdsR == {30, 99}

----------------------------------------------------------------------------
(* Helpers on sequences *)

Range(s) == {s[i] : i \in DOMAIN s}

Min(a, b) == IF a <= b THEN a ELSE b

----------------------------------------------------------------------------
(* Chunking result of one indexing call (ids are fresh uuid4 values) *)

ParentChunks(u, doc) == [p \in 1..Len(doc) |-> <<u, p>>]

RECURSIVE ChildChunksFrom(_, _, _)
ChildChunksFrom(u, doc, p) ==
    IF p > Len(doc) THEN <<>>
    ELSE [k \in 1..Len(doc[p]) |->
            [id |-> <<u, p, k>>, parent_id |-> <<u, p>>, content |-> doc[p][k]]]
         \o ChildChunksFrom(u, doc, p + 1)

ChildChunks(u, doc) == ChildChunksFrom(u, doc, 1)

----------------------------------------------------------------------------
(* Embedding of the child chunks *)

NumBatches(n) == (n + batch_size - 1) \div batch_size

\* EmbeddingService.get_embeddings_batch: TRUE stands for an embedding,
\* FALSE for the empty list [] kept for alignment.  sub[b] tells whether
\* sub-batch b succeeded within its max_retries attempts.
get_embeddings_batch(texts, sub) ==
    IF texts = <<>> THEN <<>>
    ELSE IF ~client THEN <<>>
    ELSE [i \in 1..Len(texts) |-> sub[((i - 1) \div batch_size) + 1]]

\* EmbeddingService.get_embedding, called on its own for one chunk
get_embedding(id, single) == client /\ id \in single

\* the vector record built for one embedded child chunk
MakeVector(child, md) ==
    [id |-> child.id,
     parent_id |-> child.parent_id,
     content |-> child.content,
     username |-> md.username,
     source_filename |-> md.source_filename]

\* RAGService._generate_embeddings_individual_fallback
IndividualFallback(child_chunks, md, oc) ==
    LET ok == SelectSeq(child_chunks, LAMBDA c : get_embedding(c.id, oc.single))
    IN [i \in 1..Len(ok) |-> MakeVector(ok[i], md)]

\* RAGService._generate_embeddings_batch: the test that sends the call to
\* the per-chunk fallback
BatchFailed(embeddings, n) ==
    embeddings = <<>> \/ Len(embeddings) # n

\* RAGService._generate_embeddings_batch.  The result names the vectors, the
\* chunks the batch call gave no embedding for, and the chunks embedded
\* by individual calls.
GenerateEmbeddingsBatch(child_chunks, md, oc) ==
    LET n   == Len(child_chunks)
        ids == {child_chunks[i].id : i \in 1..n}
        e   == get_embeddings_batch([i \in 1..n |-> child_chunks[i].content], oc.sub)
    IN  IF child_chunks = <<>>
        THEN [vectors |-> <<>>, batchFailed |-> {}, individual |-> {}]
        ELSE IF oc.raise \/ BatchFailed(e, n)
        THEN [vectors |-> IndividualFallback(child_chunks, md, oc),
              batchFailed |-> IF oc.raise \/ Len(e) # n THEN ids
                              ELSE {child_chunks[i].id : i \in {j \in 1..n : ~e[j]}},
              individual |-> ids]
        ELSE LET got == SelectSeq([i \in 1..n |-> [c |-> child_chunks[i], e |-> e[i]]],
                                  LAMBDA x : x.e)
             IN [vectors |-> [i \in 1..Len(got) |-> MakeVector(got[i].c, md)],
                 batchFailed |-> {child_chunks[i].id : i \in {j \in 1..n : ~e[j]}},
                 individual |-> {}]

----------------------------------------------------------------------------
(* The stores *)

\* PineconeService.upsert_vectors (one batch of up to 100 vectors); ok is
\* FALSE when the index is not initialised or Pinecone raises
upsert_vectors(store, vecs, ok) ==
    [ret   |-> ok,
     store |-> IF ok
               THEN {v \in store : v.id \notin {w.id : w \in Range(vecs)}} \cup Range(vecs)
               ELSE store]

\* ParentChunksService.store_parent_chunks: one update_one(upsert=True) per
\* chunk; fail = 0 when every write succeeds, fail = j when the j-th write
\* raises (the j-1 earlier ones are kept)
store_parent_chunks(store, pcs, fail) ==
    IF pcs = <<>> THEN [ret |-> TRUE, store |-> store]
    ELSE IF fail = 0 THEN [ret |-> TRUE, store |-> store \cup Range(pcs)]
    ELSE [ret |-> FALSE, store |-> store \cup {pcs[j] : j \in 1..(fail - 1)}]

----------------------------------------------------------------------------
(* RAGService.indexing_module *)

\* the mutant: an empty vector list does not stop the call
NoVectorsNever(vecs) == FALSE

\* "if not vectors: return empty result"
NoVectors(vecs) == vecs = <<>>

\* the mutant: only the vector upsert is checked
StorageFailedVectorsOnly(results) == results[1] = FALSE

\* "for i, result in enumerate(results): if ... result is False: raise"
StorageFailed(results) == \E i \in DOMAIN results : results[i] = FALSE

EmptyResult == [chunk_ids |-> <<>>, parent_ids |-> <<>>]

\* the mutant: the ids of all child chunks are returned
ReturnedChunkIdsAll(vecs, child_chunks) ==
    [i \in 1..Len(child_chunks) |-> child_chunks[i].id]

\* "chunk_ids": [v["id"] for v in vectors]
ReturnedChunkIds(vecs, child_chunks) == [i \in 1..Len(vecs) |-> vecs[i].id]

\* The result of the call and the two stores after it.
indexing_module(u, doc, md, oc) ==
    LET pcs == ParentChunks(u, doc)
        ccs == ChildChunks(u, doc)
    IN
    LET emb == CHOOSE x \in {GenerateEmbeddingsBatch(ccs, md, oc)} : TRUE
    IN
    LET up  == upsert_vectors(vectors, emb.vectors, oc.upsertOk)
        st  == store_parent_chunks(parents, pcs, oc.parentFail)
    IN  IF NoVectors(emb.vectors)
        THEN [result |-> EmptyResult, vectors |-> vectors, parents |-> parents,
              emb |-> emb, stored |-> FALSE, upsertRet |-> TRUE, storeRet |-> TRUE]
        ELSE [result |-> IF StorageFailed(<<up.ret, st.ret>>) THEN EmptyResult
                         ELSE [chunk_ids |-> ReturnedChunkIds(emb.vectors, ccs),
                               parent_ids |-> pcs],
              vectors |-> up.store, parents |-> st.store,
              emb |-> emb, stored |-> TRUE, upsertRet |-> up.ret, storeRet |-> st.ret]

----------------------------------------------------------------------------
(* UserDocumentsService *)

\* get_user_documents: [] when MongoDB raises
get_user_documents(username, ok) ==
    IF ok THEN {d \in userDocs : d.username = username} ELSE {}

\* add_document: insert_one; an exception is swallowed and {} returned
add_document(docs, entry, ok) == IF ok THEN docs \cup {entry} ELSE docs

\* delete_documents: delete_many by username and filename
user_delete_documents(docs, username, filenames, ok) ==
    IF ok THEN {d \in docs : ~(d.username = username /\ d.filename \in filenames)}
    ELSE docs

----------------------------------------------------------------------------
(* Results of the last calls *)

NoIdx ==
    [op |-> "none", upload |-> 0, user |-> "", filename |-> "",
     children |-> {}, parentsMade |-> {}, embedded |-> {}, batchFailed |-> {},
     individual |-> {}, stored |-> FALSE, upsertRet |-> TRUE, storeRet |-> TRUE,
     chunk_ids |-> <<>>, parent_ids |-> <<>>, http |-> 0, listed |-> FALSE]

NoDel ==
    [op |-> "none", user |-> "", filenames |-> {}, found |-> FALSE,
     chunk_ids |-> {}, parent_ids |-> {}, raised |-> FALSE]

NoResp ==
    [op |-> "none", user |-> "", documents |-> {}, answer |-> "",
     matches |-> {}, parent_ids |-> {}, chunks |-> {}]

NoRin == [matches |-> <<>>]

NoRout ==
    [done |-> FALSE, threshold |-> 0, pstore |-> {}, fetchOk |-> TRUE,
     filtered |-> <<>>, parent_ids |-> <<>>, chunks |-> <<>>]

\* no call is being answered
Idle == idx = NoIdx /\ del = NoDel /\ resp = NoResp

\* the controller's result (or HTTPException) goes back to the caller
Respond ==
    /\ ~Idle
    /\ idx' = NoIdx
    /\ del' = NoDel
    /\ resp' = NoResp
    /\ UNCHANGED <<client, vectors, parents, userDocs, nextUpload, faults, rin, rout>>

----------------------------------------------------------------------------
(* RAGController.process_and_index_document (reached through            *)
(* upload_and_index_file, which passes file.filename both as filename    *)
(* and as metadata.source_filename)                                      *)

\* "if not new_chunk_ids: raise HTTPException(500)"
IndexFailed(new_chunk_ids) == new_chunk_ids = <<>>

ProcessAndIndexDocument(user, fn, doc, oc) ==
    \E r \in {indexing_module(nextUpload + 1, doc,
                                [username |-> user, source_filename |-> fn], oc)} :
    LET u  == nextUpload + 1
        failed == IndexFailed(r.result.chunk_ids)
        entry  == [username |-> user, filename |-> fn, upload |-> u,
                   chunk_ids |-> Range(r.result.chunk_ids),
                   parent_ids |-> Range(r.result.parent_ids)]
    IN  /\ nextUpload' = u
        /\ vectors' = r.vectors
        /\ parents' = r.parents
        /\ userDocs' = IF failed THEN userDocs ELSE add_document(userDocs, entry, oc.addOk)
        /\ idx' = [op |-> "index", upload |-> u, user |-> user, filename |-> fn,
                   children |-> {c.id : c \in Range(ChildChunks(u, doc))},
                   parentsMade |-> Range(ParentChunks(u, doc)),
                   embedded |-> {v.id : v \in Range(r.emb.vectors)},
                   batchFailed |-> r.emb.batchFailed,
                   individual |-> r.emb.individual,
                   stored |-> r.stored,
                   upsertRet |-> r.upsertRet, storeRet |-> r.storeRet,
                   chunk_ids |-> r.result.chunk_ids,
                   parent_ids |-> r.result.parent_ids,
                   http |-> IF failed THEN 500 ELSE 200,
                   listed |-> ~failed /\ oc.addOk]
        /\ del' = NoDel
        /\ resp' = NoResp
        /\ UNCHANGED <<client, rin, rout>>

B2N(b) == IF b THEN 1 ELSE 0

\* the provider failures in the outcome oc of one indexing call
IndexFaults(oc, ids) ==
    B2N(oc.raise) + Cardinality({b \in DOMAIN oc.sub : ~oc.sub[b]})
    + Cardinality(ids \ oc.single) + B2N(~oc.upsertOk)
    + B2N(oc.parentFail > 0) + B2N(~oc.addOk)

\* the outcomes the providers can give to one indexing call of doc; an
\* outcome the call does not read is fixed to "no failure"
IndexOutcomes(doc) ==
    LET ccs == ChildChunks(nextUpload + 1, doc)
        n   == Len(ccs)
        ids == {c.id : c \in Range(ccs)}
        md0 == [username |-> "", source_filename |-> ""]
    IN  { oc \in [raise : BOOLEAN,
                  sub : [1..NumBatches(n) -> BOOLEAN],
                  single : SUBSET ids,
                  upsertOk : BOOLEAN,
                  parentFail : 0..Len(doc),
                  addOk : BOOLEAN] :
            \* get_embeddings_batch can raise only past its client check
            /\ oc.raise => (client /\ n > 0)
            /\ (~oc.raise /\ client) => oc.single = ids
            /\ ~client => oc.single = ids
            /\ (oc.raise \/ ~client) => \A b \in DOMAIN oc.sub : oc.sub[b]
            /\ GenerateEmbeddingsBatch(ccs, md0, oc).vectors = <<>>
                  => (oc.upsertOk /\ oc.parentFail = 0)
            /\ (~oc.upsertOk \/ oc.parentFail > 0
                  \/ GenerateEmbeddingsBatch(ccs, md0, oc).vectors = <<>>) => oc.addOk
            /\ faults + IndexFaults(oc, ids) <= MaxFaults }

Index ==
    /\ Idle
    /\ nextUpload < MaxUploads
    /\ \E user \in Users, fn \in Files, doc \in Docs :
        \E oc \in IndexOutcomes(doc) :
            /\ ProcessAndIndexDocument(user, fn, doc, oc)
            /\ faults' = faults
                  + IndexFaults(oc, {c.id : c \in Range(ChildChunks(nextUpload + 1, doc))})

----------------------------------------------------------------------------
(* RAGController.delete_documents *)

\* PineconeService.delete_vectors_by_chunk_ids: 0 and nothing deleted when
\* the index is not initialised or Pinecone raises
delete_vectors_by_chunk_ids(store, chunk_ids, ok) ==
    IF chunk_ids = {} THEN store
    ELSE IF ok THEN {v \in store : v.id \notin chunk_ids}
    ELSE store

\* PineconeService.get_parent_ids_from_chunks (records without parent_ids)
get_parent_ids_from_chunks(store, chunk_ids, ok) ==
    IF chunk_ids = {} \/ ~ok THEN {}
    ELSE {v.parent_id : v \in {w \in store : w.id \in chunk_ids}}

\* ParentChunksService.delete_parent_chunks: 0 and nothing deleted when
\* MongoDB raises
delete_parent_chunks(store, parent_ids, ok) ==
    IF parent_ids = {} THEN store
    ELSE IF ok THEN store \ parent_ids
    ELSE store

\* class PineconeService defines initialize, upsert_vectors, query_vectors,
\* get_parent_ids_from_chunks and delete_vectors_by_chunk_ids, and no
\* delete_vectors_by_filter: the call of rag_controller.py line 53 raises
\* AttributeError.
PineconeHasDeleteVectorsByFilter == FALSE

\* what the sweep of line 53 would delete
delete_vectors_by_filter(store, username, filenames) ==
    {v \in store : ~(v.username = username /\ v.source_filename \in filenames)}

DeleteDocuments(user, filenames, oc) ==
    LET docs       == get_user_documents(user, oc.getOk)
        sel        == {d \in docs : d.filename \in filenames}
        chunk_ids  == UNION {d.chunk_ids : d \in sel}
        rec_pids   == UNION {d.parent_ids : d \in sel}
        parent_ids == IF rec_pids = {}
                      THEN get_parent_ids_from_chunks(vectors, chunk_ids, oc.vecOk)
                      ELSE rec_pids
        byId       == delete_vectors_by_chunk_ids(vectors, chunk_ids, oc.vecOk)
    IN  /\ IF chunk_ids = {}
           THEN \* "No chunks found for documents": nothing is touched
                /\ oc.docsOk /\ oc.vecOk /\ oc.parOk
                /\ UNCHANGED <<vectors, parents, userDocs>>
                /\ del' = [op |-> "delete", user |-> user, filenames |-> filenames,
                           found |-> FALSE, chunk_ids |-> {}, parent_ids |-> {},
                           raised |-> FALSE]
           ELSE /\ userDocs' = user_delete_documents(userDocs, user, filenames, oc.docsOk)
                /\ IF filenames # {} /\ ~PineconeHasDeleteVectorsByFilter
                   THEN \* AttributeError leaves delete_documents here
                        /\ oc.parOk
                        /\ vectors' = byId
                        /\ parents' = parents
                        /\ del' = [op |-> "delete", user |-> user,
                                   filenames |-> filenames, found |-> TRUE,
                                   chunk_ids |-> chunk_ids, parent_ids |-> parent_ids,
                                   raised |-> TRUE]
                   ELSE /\ vectors' = delete_vectors_by_filter(byId, user, filenames)
                        /\ parents' = delete_parent_chunks(parents, parent_ids, oc.parOk)
                        /\ del' = [op |-> "delete", user |-> user,
                                   filenames |-> filenames, found |-> TRUE,
                                   chunk_ids |-> chunk_ids, parent_ids |-> parent_ids,
                                   raised |-> FALSE]
        /\ idx' = NoIdx
        /\ resp' = NoResp
        /\ UNCHANGED <<client, nextUpload, rin, rout>>

\* the provider failures in the outcome oc of one delete_documents call
DeleteFaults(oc) ==
    B2N(~oc.getOk) + B2N(~oc.docsOk) + B2N(~oc.vecOk) + B2N(~oc.parOk)

Delete ==
    /\ Idle
    /\ \E user \in Users, filenames \in SUBSET Files :
        \E oc \in [getOk : BOOLEAN, docsOk : BOOLEAN, vecOk : BOOLEAN, parOk : BOOLEAN] :
            /\ faults + DeleteFaults(oc) <= MaxFaults
            /\ faults' = faults + DeleteFaults(oc)
            /\ DeleteDocuments(user, filenames, oc)

----------------------------------------------------------------------------
(* RAGService.retrieval_module and what it calls *)

\* the first 200 characters of a content: contents c and c + 10 differ
\* only after them
Prefix200(content) == content % 10

\* hash(content[:200])
ContentHash(content) == Prefix200(content)

\* the mutant: the username filter is left out
MatchesFilterNoUser(v, username, documents) ==
    documents # {} => v.source_filename \in documents

\* PineconeService.query_vectors: the metadata filter
MatchesFilter(v, username, documents) ==
    /\ (username # "" => v.username = username)
    /\ (documents # {} => v.source_filename \in documents)

\* the nearest neighbours first: the vectors of cand by descending score
RECURSIVE RankBySim(_, _)
RankBySim(cand, sim) ==
    IF cand = {} THEN <<>>
    ELSE LET best == CHOOSE v \in cand : \A w \in cand : sim[v.id] >= sim[w.id]
         IN <<[id |-> best.id, score |-> sim[best.id], parent_id |-> best.parent_id,
               content |-> best.content, username |-> best.username,
               source_filename |-> best.source_filename]>>
            \o RankBySim(cand \ {best}, sim)

\* PineconeService.query_vectors; ok is FALSE when the index is not
\* initialised or Pinecone raises
query_vectors(store, top_k, username, documents, sim, ok) ==
    IF ~ok THEN <<>>
    ELSE LET ranked == RankBySim({v \in store : MatchesFilter(v, username, documents)}, sim)
         IN SubSeq(ranked, 1, Min(top_k, Len(ranked)))

\* the mutant: an empty filtered list is kept empty
FilterByThresholdNoFallback(child_results, similarity_threshold) ==
    SelectSeq(child_results, LAMBDA r : r.score >= similarity_threshold)

\* "if score >= similarity_threshold" and "if not filtered_results:
\* filtered_results = child_results"
FilterByThreshold(child_results, similarity_threshold) ==
    LET f == SelectSeq(child_results, LAMBDA r : r.score >= similarity_threshold)
    IN IF f = <<>> THEN child_results ELSE f

\* "if content_hash not in seen_content_hashes or len(parent_ids) < 3"
DiversityFloor == 3

\* the mutant: the floor of 3 parents is left out
DiversityAdmitsHashOnly(content_hash, seen, parent_ids) ==
    content_hash \notin seen

DiversityAdmits(content_hash, seen, parent_ids) ==
    content_hash \notin seen \/ Len(parent_ids) < DiversityFloor

\* the loop over filtered_results that selects the parent ids
RECURSIVE SelectParents(_, _, _, _)
SelectParents(filtered, parent_ids, parent_scores, seen) ==
    IF filtered = <<>>
    THEN [parent_ids |-> parent_ids, parent_scores |-> parent_scores]
    ELSE LET res == Head(filtered)
             h   == ContentHash(res.content)
         IN IF res.parent_id \notin Range(parent_ids)
               /\ DiversityAdmits(h, seen, parent_ids)
            THEN SelectParents(Tail(filtered), Append(parent_ids, res.parent_id),
                               parent_scores \cup {<<res.parent_id, res.score>>},
                               seen \cup {h})
            ELSE SelectParents(Tail(filtered), parent_ids, parent_scores, seen)

\* the mutant: one missing parent chunk and nothing is fetched
fetch_parent_chunks_all_or_none(store, parent_ids, ok) ==
    IF ok /\ Range(parent_ids) \subseteq store THEN Range(parent_ids) ELSE {}

\* ParentChunksService.fetch_parent_chunks: {} when MongoDB raises
fetch_parent_chunks(store, parent_ids, ok) ==
    IF parent_ids = <<>> \/ ~ok THEN {} ELSE store \cap Range(parent_ids)

\* list.sort(key=retrieval_score, reverse=True): stable, by insertion
RECURSIVE InsertDesc(_, _)
InsertDesc(sorted, x) ==
    IF sorted = <<>> THEN <<x>>
    ELSE IF Head(sorted).retrieval_score >= x.retrieval_score
         THEN <<Head(sorted)>> \o InsertDesc(Tail(sorted), x)
         ELSE <<x>> \o sorted

RECURSIVE SortDesc(_)
SortDesc(chunks) ==
    IF chunks = <<>> THEN <<>>
    ELSE InsertDesc(SortDesc(SubSeq(chunks, 1, Len(chunks) - 1)), chunks[Len(chunks)])

ScoreOf(parent_scores, parent_id) ==
    (CHOOSE ps \in parent_scores : ps[1] = parent_id)[2]

\* RAGService.retrieval_module, from the embedding of the query on.  The
\* result names the matches used, the parent ids selected and the
\* enriched chunks returned.
retrieval_module(embOk, child_results, similarity_threshold, pstore, fetchOk) ==
    LET none == [matches |-> <<>>, filtered |-> <<>>, parent_ids |-> <<>>, chunks |-> <<>>]
    IN
    IF ~embOk THEN none
    ELSE IF child_results = <<>> THEN none
    ELSE
    LET filtered == FilterByThreshold(child_results, similarity_threshold)
        sel      == SelectParents(filtered, <<>>, {}, {})
        fetched  == fetch_parent_chunks(pstore, sel.parent_ids, fetchOk)
        inOrder  == SelectSeq(sel.parent_ids, LAMBDA id : id \in fetched)
    IN  IF sel.parent_ids = <<>> \/ fetched = {}
        THEN [matches |-> child_results, filtered |-> filtered,
              parent_ids |-> sel.parent_ids, chunks |-> <<>>]
        ELSE [matches |-> child_results, filtered |-> filtered,
              parent_ids |-> sel.parent_ids,
              chunks |-> SortDesc([i \in 1..Len(inOrder) |->
                            [id |-> inOrder[i],
                             retrieval_score |-> ScoreOf(sel.parent_scores, inOrder[i])]])]

----------------------------------------------------------------------------
(* RAGService.post_retrieval_module.  A chunk is [id, retrieval_score];    *)
(* the reranker adds score, the module adds final_score.                   *)

Max(a, b) == IF a >= b THEN a ELSE b

\* the mutant: with plenty of chunks only half the target is kept
keep_count_halved(n, target_count) ==
    IF n >= target_count * 2 THEN Min(target_count \div 2, n)
    ELSE IF n >= target_count THEN Min((12 * target_count) \div 10, n)
    ELSE n

\* keep_count for n chunks: int(target_count * 1.5) is (3 * target_count)
\* \div 2 and int(target_count * 1.2) is (12 * target_count) \div 10
keep_count(n, target_count) ==
    IF n >= target_count * 2 THEN Min((3 * target_count) \div 2, n)
    ELSE IF n >= target_count THEN Min((12 * target_count) \div 10, n)
    ELSE n

\* "elif len(high_quality_chunks) < 2 and score > 0.15"
ExtraFloor == 15
MaxExtras == 2
\* "if score > 0.01"
HardFloor == 1
\* "reranked_chunks[:min(3, len(reranked_chunks))]", "min(3, ...)", ">= 3"
FallbackCount == 3
\* "high_quality_chunks[:max(target_count, 8)]"
CapFloor == 8
\* a chunk without the key final_score
NoScore == -1

\* rerank_service.rerank_documents(query, documents, top_n): at most top_n
\* of the documents, each with a score, the best score first.  The scorer
\* is an input: scores is the non-increasing sequence of the scores given
\* and pick[k] the position in documents of the chunk ranked k-th.
rerank_documents(documents, top_n, scores, pick) ==
    [k \in 1..Min(Len(scores), Min(top_n, Len(documents))) |->
        [id |-> documents[pick[k]].id,
         retrieval_score |-> documents[pick[k]].retrieval_score,
         score |-> scores[k], final_score |-> NoScore]]

WithFinalScore(chunk) == [chunk EXCEPT !.final_score = chunk.score]

\* the mutant: the lower floor admits a chunk however many are kept
GateAdmitsAnyExtra(score, min_relevance_score, kept) ==
    score >= min_relevance_score \/ score > ExtraFloor

\* "if score >= min_relevance_score" and "elif len(high_quality_chunks) < 2
\* and score > 0.15", with kept chunks kept so far
GateAdmits(score, min_relevance_score, kept) ==
    score >= min_relevance_score \/ (kept < MaxExtras /\ score > ExtraFloor)

\* the loop over reranked_chunks that fills high_quality_chunks
RECURSIVE QualityGate(_, _, _, _)
QualityGate(reranked, i, min_relevance_score, hq) ==
    IF i > Len(reranked) THEN hq
    ELSE QualityGate(reranked, i + 1, min_relevance_score,
            IF GateAdmits(reranked[i].score, min_relevance_score, Len(hq))
            THEN Append(hq, WithFinalScore(reranked[i]))
            ELSE hq)

\* the mutant: nothing is returned when the gate kept nothing
AbsoluteFallbackNone(hq, reranked) == hq

\* "if not high_quality_chunks and reranked_chunks"
AbsoluteFallback(hq, reranked) ==
    IF hq = <<>> /\ reranked # <<>>
    THEN [k \in 1..Min(FallbackCount, Len(reranked)) |-> WithFinalScore(reranked[k])]
    ELSE hq

\* the loop that adds chunks not yet kept, above the hard floor, until 3
\* are kept
RECURSIVE TopUpFrom(_, _, _)
TopUpFrom(reranked, i, hq) ==
    IF i > Len(reranked) THEN hq
    ELSE IF \E k \in DOMAIN hq : hq[k].id = reranked[i].id
         THEN TopUpFrom(reranked, i + 1, hq)
    ELSE IF reranked[i].score > HardFloor
         THEN IF Len(hq) + 1 >= FallbackCount
              THEN Append(hq, WithFinalScore(reranked[i]))
              ELSE TopUpFrom(reranked, i + 1, Append(hq, WithFinalScore(reranked[i])))
    ELSE TopUpFrom(reranked, i + 1, hq)

\* "if len(high_quality_chunks) < min(3, len(reranked_chunks))"
TopUp(hq, reranked) ==
    IF Len(hq) < Min(FallbackCount, Len(reranked)) THEN TopUpFrom(reranked, 1, hq)
    ELSE hq

\* the mutant: nothing is cut
CapNone(hq, target_count) == hq

\* "high_quality_chunks[:max(target_count, 8)]"
Cap(hq, target_count) ==
    SubSeq(hq, 1, Min(Len(hq), Max(target_count, CapFloor)))

\* RAGService.post_retrieval_module.  rr is what the reranker does: it
\* raises (rr.raise) or scores (rr.scores, rr.pick).  The result names the
\* keep_count, the reranked chunks, the chunks the gate kept and the
\* chunks returned.
PostRetrieval(chunks, target_count, min_relevance_score, rr) ==
    IF chunks = <<>>
    THEN [keep_count |-> 0, reranked |-> <<>>, gated |-> <<>>, final |-> <<>>]
    ELSE IF rr.raise
    THEN \* "except": the top chunks by retrieval score (chunks come sorted)
         [keep_count |-> keep_count(Len(chunks), target_count),
          reranked |-> <<>>, gated |-> <<>>,
          final |-> [k \in 1..Min(target_count, Len(chunks)) |->
                       [id |-> SortDesc(chunks)[k].id,
                        retrieval_score |-> SortDesc(chunks)[k].retrieval_score,
                        score |-> NoScore, final_score |-> NoScore]]]
    ELSE
    LET kc       == keep_count(Len(chunks), target_count)
        reranked == rerank_documents(chunks, kc, rr.scores, rr.pick)
        gated    == QualityGate(reranked, 1, min_relevance_score, <<>>)
        hq       == TopUp(AbsoluteFallback(gated, reranked), reranked)
    IN  [keep_count |-> kc, reranked |-> reranked, gated |-> gated,
         final |-> Cap(hq, target_count)]

post_retrieval_module(chunks, target_count, min_relevance_score, rr) ==
    PostRetrieval(chunks, target_count, min_relevance_score, rr).final

\* "min_relevance_score=0.35" of the query flow
QueryMinRelevance == 35

\* what the reranker does in a query: it raises, returns no chunk, or gives
\* every chunk the score 0.5 in the order it got them
RerankOutcome(rr, n) ==
    [raise  |-> rr = "raise",
     scores |-> IF rr = "some" THEN [k \in 1..n |-> 50] ELSE <<>>,
     pick   |-> [k \in 1..n |-> k]]

----------------------------------------------------------------------------
(* RAGController.orchestrate_rag_flow (no chat session) *)

NoDocumentsMsg == "You haven't uploaded any documents yet"
NoMatchMsg     == "I scanned your documents but couldn't find any content"
NotRelevantMsg == "I found some documents but none seem relevant"
GeneratedAnswer == "generated answer"

\* "if not user_docs"
UserHasNoDocuments(user_docs) == user_docs = {}

OrchestrateRagFlow(user, documents, top_k, mult, sim, oc) ==
    LET retrieval_pool_size == Min(top_k * mult, 50)
        retrieval_size      == Min(retrieval_pool_size * 2, 50)
    IN
    \E r \in {retrieval_module(oc.embOk,
                 query_vectors(vectors, retrieval_size, user, documents, sim, oc.pineOk),
                 QuerySimilarityThreshold, parents, oc.fetchOk)} :
    LET user_docs == get_user_documents(user, oc.docsOk)
        final     == post_retrieval_module(r.chunks, top_k, QueryMinRelevance,
                                           RerankOutcome(oc.rr, Len(r.chunks)))
        answer    == IF r.chunks = <<>>
                     THEN IF UserHasNoDocuments(user_docs) THEN NoDocumentsMsg
                          ELSE NoMatchMsg
                     ELSE IF final = <<>> THEN NotRelevantMsg
                     ELSE GeneratedAnswer
    IN  /\ resp' = [op |-> "query", user |-> user, documents |-> documents,
                    answer |-> answer,
                    matches |-> {[id |-> m.id, username |-> m.username,
                                  parent_id |-> m.parent_id] : m \in Range(r.matches)},
                    parent_ids |-> Range(r.parent_ids),
                    chunks |-> {c.id : c \in Range(r.chunks)}]
        \* an outcome that is not read is fixed to "no failure"
        /\ r.chunks # <<>> => oc.docsOk
        /\ r.chunks = <<>> => oc.rr = "some"
        /\ r.parent_ids = <<>> => oc.fetchOk
        /\ idx' = NoIdx
        /\ del' = NoDel
        /\ UNCHANGED <<client, vectors, parents, userDocs, nextUpload, rin, rout>>

\* the provider failures in the outcome oc of one query
QueryFaults(oc) ==
    B2N(~oc.embOk) + B2N(~oc.pineOk) + B2N(~oc.fetchOk) + B2N(~oc.docsOk)
    + B2N(oc.rr = "raise")

Query ==
    /\ Idle
    /\ \E user \in Users, documents \in DocFilters, top_k \in TopKs, mult \in Multipliers :
        \E sim \in [{v.id : v \in {w \in vectors : MatchesFilter(w, user, documents)}}
                        -> Scores] :
        \E oc \in [embOk : BOOLEAN, pineOk : BOOLEAN, fetchOk : BOOLEAN,
                   docsOk : BOOLEAN, rr : {"some", "empty", "raise"}] :
            /\ faults + QueryFaults(oc) <= MaxFaults
            \* an outcome that is not read is fixed to "no failure"
            /\ ~oc.embOk => (oc.pineOk /\ oc.fetchOk /\ oc.rr = "some")
            /\ ~oc.pineOk => (oc.fetchOk /\ oc.rr = "some")
            /\ ~oc.fetchOk => oc.rr = "some"
            /\ faults' = faults + QueryFaults(oc)
            /\ OrchestrateRagFlow(user, documents, top_k, mult, sim, oc)

----------------------------------------------------------------------------

Init ==
    /\ client \in BOOLEAN
    /\ vectors = {}
    /\ parents = {}
    /\ userDocs = {}
    /\ nextUpload = 0
    /\ faults = 0
    /\ idx = NoIdx
    /\ del = NoDel
    /\ resp = NoResp
    /\ rin = NoRin
    /\ rout = NoRout

Next == Index \/ Delete \/ Query \/ Respond

Spec == Init /\ [][Next]_vars

----------------------------------------------------------------------------
(* retrieval_module on its own, over every list of child matches that the *)
(* vector store can deliver (nearest first: scores do not increase)       *)

\* n matches, the first hi of them with the high score; match i has parent
\* <<0, pf[i]>> and content cf[i]
MatchSeqR(n, pf, cf, hi) ==
    [i \in 1..n |->
        [id |-> <<0, 0, i>>, score |-> IF i <= hi THEN 50 ELSE 20,
         parent_id |-> <<0, pf[i]>>, content |-> cf[i],
         username |-> "A", source_filename |-> "f1"]]

LongContentsR == {1, 2}

\* parent ids are uuid4 values, of which only equality is read: they are
\* numbered in the order in which the matches first name them
FirstSeenOrder(n, pf) ==
    \A i \in 1..n : \A k \in 1..(pf[i] - 1) : \E j \in 1..(i - 1) : pf[j] = k

InitR ==
    /\ client = TRUE
    /\ vectors = {}
    /\ parents = {}
    /\ userDocs = {}
    /\ nextUpload = 0
    /\ faults = 0
    /\ idx = NoIdx
    /\ del = NoDel
    /\ resp = NoResp
    /\ \/ \E n \in 0..MaxMatches :
             \E pf \in [1..n -> 1..MaxMatches] :
                /\ FirstSeenOrder(n, pf)
                /\ \E cf \in [1..n -> ContentsR], hi \in 0..n :
                      rin = [matches |-> MatchSeqR(n, pf, cf, hi)]
       \* one match more: two contents, the last match below the others
       \/ \E n \in {MaxMatches + 1} :
             \E pf \in [1..n -> 1..MaxMatches] :
                /\ FirstSeenOrder(n, pf)
                /\ \E cf \in [1..n -> LongContentsR] :
                      rin = [matches |-> MatchSeqR(n, pf, cf, n - 1)]
    /\ rout = NoRout

\* the parent-chunk stores tried: complete, the parent of the best match
\* missing, the second parent missing, empty
ParentStoresR ==
    {ParentIdsR, ParentIdsR \ {<<0, 1>>}, ParentIdsR \ {<<0, 2>>}, {}}

Retrieve ==
    /\ ~rout.done
    /\ \E threshold \in ThresholdsR, pstore \in ParentStoresR, fetchOk \in BOOLEAN :
        \E r \in {retrieval_module(TRUE, rin.matches, threshold, pstore, fetchOk)} :
            /\ ~fetchOk => pstore = ParentIdsR
            /\ rout' = [done |-> TRUE, threshold |-> threshold, pstore |-> pstore,
                        fetchOk |-> fetchOk, filtered |-> r.filtered,
                        parent_ids |-> r.parent_ids, chunks |-> r.chunks]
    /\ UNCHANGED <<client, vectors, parents, userDocs, nextUpload, faults,
                   idx, del, resp, rin>>

NextR == Retrieve

SpecRetrieval == InitR /\ [][NextR]_vars

----------------------------------------------------------------------------
(* RAGService._chunk_document_small_to_big on its own.  A content is a    *)
(* sequence of one-character strings; positions are counted from 0 as in  *)
(* the code.                                                              *)

\* RAGService.__init__
parent_chunk_size == 1000
chunk_overlap == 100

\* "if len(sentence.strip()) > 20"
MinSentenceChars == 20

Whitespace == {" ", "\n", "\t", "\r"}
Upper == {"A", "B", "C", "D", "E", "F", "G", "H", "I", "J", "K", "L", "M",
          "N", "O", "P", "Q", "R", "S", "T", "U", "V", "W", "X", "Y", "Z"}
Lower == {"a", "b", "c", "d", "e", "f", "g", "h", "i", "j", "k", "l", "m",
          "n", "o", "p", "q", "r", "s", "t", "u", "v", "w", "x", "y", "z"}
Digit == {"0", "1", "2", "3", "4", "5", "6", "7", "8", "9"}
\* \w of the sentence pattern
Word == Upper \cup Lower \cup Digit \cup {"_"}
\* (?<=\.|\?|\!)
SentenceEnd == {".", "?", "!"}

\* the positions of s (from 1) of its first and last character that is not
\* whitespace; 0 when there is none
FirstInk(s) ==
    IF \A i \in DOMAIN s : s[i] \in Whitespace THEN 0
    ELSE CHOOSE i \in DOMAIN s :
            s[i] \notin Whitespace /\ \A j \in 1..(i - 1) : s[j] \in Whitespace

LastInk(s) ==
    IF \A i \in DOMAIN s : s[i] \in Whitespace THEN 0
    ELSE CHOOSE i \in DOMAIN s :
            s[i] \notin Whitespace /\ \A j \in (i + 1)..Len(s) : s[j] \in Whitespace

\* str.strip()
Strip(s) == IF FirstInk(s) = 0 THEN <<>> ELSE SubSeq(s, FirstInk(s), LastInk(s))

\* sentence_pattern matches at position i of s (s[i] is the first character
\* of the match): whitespace that follows ".", "?" or "!", unless what
\* precedes is "\w.\w" and one character, or [A-Z][a-z] and "."
SplitsAt(s, i) ==
    /\ i > 1
    /\ s[i] \in Whitespace
    /\ s[i - 1] \in SentenceEnd
    /\ ~(i > 4 /\ s[i - 4] \in Word /\ s[i - 3] = "." /\ s[i - 2] \in Word
               /\ s[i - 1] # "\n")
    /\ ~(i > 3 /\ s[i - 3] \in Upper /\ s[i - 2] \in Lower /\ s[i - 1] = ".")

\* the first position from i on that is not whitespace (Len(s) + 1 if none):
\* "\s+" takes the whole run
SkipWhitespace(s, i) ==
    IF \A j \in i..Len(s) : s[j] \in Whitespace THEN Len(s) + 1
    ELSE CHOOSE j \in i..Len(s) :
            s[j] \notin Whitespace /\ \A k \in i..(j - 1) : s[k] \in Whitespace

\* sentence_pattern.split(s), read from position i with the piece cur open
RECURSIVE SplitSentences(_, _, _)
SplitSentences(s, i, cur) ==
    IF i > Len(s) THEN <<cur>>
    ELSE IF SplitsAt(s, i)
         THEN <<cur>> \o SplitSentences(s, SkipWhitespace(s, i), <<>>)
         ELSE SplitSentences(s, i + 1, Append(cur, s[i]))

\* the mutant: every fragment is kept
ValidSentenceAny(sentence, minlen) == TRUE

\* "if len(sentence.strip()) > 20"
ValidSentence(sentence, minlen) == Len(Strip(sentence)) > minlen

\* valid_sentences of one parent content
ValidSentences(parent_content, minlen) ==
    LET pieces == SplitSentences(parent_content, 1, <<>>)
        kept   == SelectSeq(pieces, LAMBDA x : ValidSentence(x, minlen))
    IN  [k \in DOMAIN kept |-> Strip(kept[k])]

\* the mutant: every child refers to one and the same parent id
MakeChildSameParent(sentence, parent_id, k) ==
    [id |-> <<"child", parent_id[2], k>>, content |-> sentence,
     parent_id |-> <<"parent", 0>>]

\* the child chunk of a sentence: a fresh id, the sentence, the parent's id
MakeChild(sentence, parent_id, k) ==
    [id |-> <<"child", parent_id[2], k>>, content |-> sentence,
     parent_id |-> parent_id]

\* the mutant: the window advances by its whole size and as much again
NextStartSkipping(start, size, overlap) == start + 2 * size

\* "start += self.parent_chunk_size - self.chunk_overlap"
NextStart(start, size, overlap) == start + size - overlap

\* The loop of _chunk_document_small_to_big from position start on.  A
\* parent chunk records, besides its id and content, the window it was cut
\* from (start, end: content[start:end]) and the positions lo..hi of the
\* content that its stripped content holds.
RECURSIVE ChunkFrom(_, _, _, _, _)
ChunkFrom(content, start, size, overlap, minlen) ==
    IF start >= Len(content) THEN [parent_chunks |-> <<>>, child_chunks |-> <<>>]
    ELSE
      LET end    == Min(start + size, Len(content))
          window == SubSeq(content, start + 1, end)
          parent_content == Strip(window)
          parent_id == <<"parent", start>>
          sentences == ValidSentences(parent_content, minlen)
          rest   == ChunkFrom(content, NextStart(start, size, overlap),
                              size, overlap, minlen)
      IN  IF parent_content = <<>> THEN rest
          ELSE [parent_chunks |->
                    << [id |-> parent_id, content |-> parent_content,
                        start |-> start, end |-> end,
                        lo |-> start + FirstInk(window) - 1,
                        hi |-> start + LastInk(window) - 1] >>
                    \o rest.parent_chunks,
                child_chunks |->
                    [k \in DOMAIN sentences |-> MakeChild(sentences[k], parent_id, k)]
                    \o rest.child_chunks]

chunk_document_small_to_big(content, size, overlap, minlen) ==
    ChunkFrom(content, 0, size, overlap, minlen)

\* the contents tried: every sequence of at most MaxContentLen of these
\* characters
MaxContentLen == 6
AlphabetC == {"a", "B", ".", " "}

\* window sizes, overlaps and sentence minima tried with them (the code's
\* 1000, 100 and 20 scaled down; the overlap is less than the size)
ChunkParamsC ==
    { [size |-> 3, overlap |-> 1, minlen |-> 1],
      [size |-> 6, overlap |-> 2, minlen |-> 0] }

\* "Hello world. This is a test."
HelloWorld ==
    <<"H", "e", "l", "l", "o", " ", "w", "o", "r", "l", "d", ".", " ",
      "T", "h", "i", "s", " ", "i", "s", " ", "a", " ", "t", "e", "s", "t", ".">>

\* a content with one sentence of 21 characters and one of 20
TwoSentences ==
    <<"T", "h", "a", "t", " ", "o", "n", "e", " ", "i", "s", " ", "k", "e", "p",
      "t", " ", "n", "o", "w", ".", " ",
      "T", "h", "i", "s", " ", "o", "n", "e", " ", "i", "s", " ", "d", "r", "o",
      "p", "p", "e", "d", "?">>

\* no request in flight and nothing stored: the state around a module
\* taken on its own
Standalone ==
    /\ client = TRUE
    /\ vectors = {}
    /\ parents = {}
    /\ userDocs = {}
    /\ nextUpload = 0
    /\ faults = 0
    /\ idx = NoIdx
    /\ del = NoDel
    /\ resp = NoResp

InitC ==
    /\ Standalone
    /\ \/ \E n \in 0..MaxContentLen, pr \in ChunkParamsC :
             \E c \in [1..n -> AlphabetC] :
                rin = [content |-> c, size |-> pr.size, overlap |-> pr.overlap,
                       minlen |-> pr.minlen]
       \/ \E c \in {HelloWorld, TwoSentences} :
             rin = [content |-> c, size |-> parent_chunk_size,
                    overlap |-> chunk_overlap, minlen |-> MinSentenceChars]
    /\ rout = [done |-> FALSE]

Chunk ==
    /\ ~rout.done
    /\ \E r \in {chunk_document_small_to_big(rin.content, rin.size, rin.overlap,
                                             rin.minlen)} :
          rout' = [done |-> TRUE, parent_chunks |-> r.parent_chunks,
                   child_chunks |-> r.child_chunks]
    /\ UNCHANGED <<client, vectors, parents, userDocs, nextUpload, faults,
                   idx, del, resp, rin>>

NextC == Chunk

SpecChunking == InitC /\ [][NextC]_vars

----------------------------------------------------------------------------
(* keep_count of post_retrieval_module on its own, over every target_count *)
(* a QueryRequest admits and every number of chunks retrieval can return  *)

\* QueryRequest.top_k: le=15
MaxTopK == 15
\* "retrieval_pool_size = min(top_k * retrieval_multiplier, 50)"
MaxPoolSize == 50

InitK ==
    /\ Standalone
    /\ \E n \in 0..MaxPoolSize, target_count \in 1..MaxTopK :
          rin = [n |-> n, target_count |-> target_count]
    /\ rout = [done |-> FALSE]

\* keep_count for n chunks and for one chunk more
KeepCount ==
    /\ ~rout.done
    /\ rout' = [done |-> TRUE,
                keep_count |-> keep_count(rin.n, rin.target_count),
                keep_count_next |-> keep_count(rin.n + 1, rin.target_count)]
    /\ UNCHANGED <<client, vectors, parents, userDocs, nextUpload, faults,
                   idx, del, resp, rin>>

NextK == KeepCount

SpecKeepCount == InitK /\ [][NextK]_vars

----------------------------------------------------------------------------
(* post_retrieval_module on its own, over the chunks retrieval can return *)
(* and the scores a reranker can give them                                *)

MaxChunksP == 5
TargetCountsP == {1, 2, 5}
\* min_relevance_score: 0.35 in the query flow, 0.4 by default
MinRelevancesP == {35, 40}
\* rerank scores around the thresholds 0.01, 0.15, 0.35 and 0.4
ScoresP == {1, 2, 15, 16, 35, 40}

\* n chunks as retrieval_module returns them: best retrieval score first
ChunksP(n) ==
    [i \in 1..n |-> [id |-> <<0, i>>,
                     retrieval_score |-> IF 2 * i <= n THEN 50 ELSE 20]]

NonIncreasing(scores) ==
    \A i \in 1..(Len(scores) - 1) : scores[i] >= scores[i + 1]

\* pools large enough for more than 8 chunks to pass the gate: the scores
\* are the first hi times a, then b
MaxPoolP == 12
BigTargetCountsP == {6, 8}

TwoLevelScores(m, hi, a, b) == [k \in 1..m |-> IF k <= hi THEN a ELSE b]

InputP(n, target_count, min_relevance_score, raise, rev, scores) ==
    [chunks |-> ChunksP(n), target_count |-> target_count,
     min_relevance_score |-> min_relevance_score,
     rr |-> [raise |-> raise, scores |-> scores,
             pick |-> [k \in 1..n |-> IF rev THEN n + 1 - k ELSE k]]]

InitP ==
    /\ Standalone
    /\ \/ \E n \in 0..MaxChunksP, target_count \in TargetCountsP,
             min_relevance_score \in MinRelevancesP :
           \E m \in 0..keep_count(n, target_count), raise \in BOOLEAN, rev \in BOOLEAN :
             \E scores \in [1..m -> ScoresP] :
               /\ NonIncreasing(scores)
               \* a reranker that raises gives no scores
               /\ raise => (m = 0 /\ ~rev)
               /\ (n <= 1 \/ m = 0) => ~rev
               /\ rin = InputP(n, target_count, min_relevance_score, raise, rev, scores)
       \/ \E n \in {MaxPoolP - 1, MaxPoolP}, target_count \in BigTargetCountsP,
             min_relevance_score \in MinRelevancesP :
           \E m \in 0..keep_count(n, target_count), raise \in BOOLEAN, rev \in BOOLEAN :
             \E hi \in 0..m, a \in ScoresP, b \in ScoresP :
               /\ a >= b
               /\ (hi = m \/ hi = 0) => a = b
               /\ raise => (m = 0 /\ ~rev)
               /\ m = 0 => (~rev /\ a = 1)
               /\ rin = InputP(n, target_count, min_relevance_score, raise, rev,
                               TwoLevelScores(m, hi, a, b))
    /\ rout = [done |-> FALSE]

PostRetrieve ==
    /\ ~rout.done
    /\ \E r \in {PostRetrieval(rin.chunks, rin.target_count,
                               rin.min_relevance_score, rin.rr)} :
          rout' = [done |-> TRUE, raised |-> rin.chunks # <<>> /\ rin.rr.raise,
                   keep_count |-> r.keep_count, reranked |-> r.reranked,
                   gated |-> r.gated, final |-> r.final]
    /\ UNCHANGED <<client, vectors, parents, userDocs, nextUpload, faults,
                   idx, del, resp, rin>>

NextP == PostRetrieve

SpecPostRetrieval == InitP /\ [][NextP]_vars

----------------------------------------------------------------------------
(* pre_retrieval_module (HyDE) on its own, with the two generation        *)
(* providers it can call.  A text is a sequence of pieces, joined by \o.  *)

GroqMissingKeyText ==
    <<"Sorry, the generation service is not available (Missing API Key).">>
GeminiUnavailableText == <<"Sorry, the generation service is not available.">>
GenerateFailedText == <<"Sorry, I couldn't generate an answer at this time.">>

NoKey == "none"
DefaultModel == "gemini-2.5-flash"
ModelsH == {"gemini-2.5-flash", "llama-3.3-70b-versatile", "Groq-mixtral"}
QueriesH == {<<"what is a vector">>, <<"who wrote it">>, <<"summarise">>}
PassagesH == {<<"a vector is a list of numbers">>, <<"nobody knows">>}
\* what the provider's API does with a prompt: raise, or answer a passage
ProviderOutcomesH ==
    {[raises |-> TRUE, text |-> <<>>]} \cup
    {[raises |-> FALSE, text |-> t] : t \in PassagesH}

\* '"groq" in model.lower() or "llama" in model.lower()'
UsesGroq(model) == model \in {"llama-3.3-70b-versatile", "Groq-mixtral"}

\* GroqService._get_client: "key = api_key or settings.groq_api_key"
GroqClient(api_key, settings_key) == api_key # NoKey \/ settings_key # NoKey

\* GroqService.generate_answer: never raises, an apology is its answer
\* when there is no client or the API call fails
GroqGenerateAnswer(api_key, settings_key, outcome) ==
    IF ~GroqClient(api_key, settings_key)
    THEN [raised |-> FALSE, text |-> GroqMissingKeyText]
    ELSE IF outcome.raises
    THEN [raised |-> FALSE, text |-> GenerateFailedText]
    ELSE [raised |-> FALSE, text |-> outcome.text]

\* GeminiService.generate_answer(self, prompt): a call with a keyword the
\* signature does not have raises TypeError before the body runs
GeminiGenerateAnswer(keywords, has_client, outcome) ==
    IF keywords # {} THEN [raised |-> TRUE, text |-> <<>>]
    ELSE IF ~has_client THEN [raised |-> FALSE, text |-> GeminiUnavailableText]
    ELSE IF outcome.raises THEN [raised |-> FALSE, text |-> GenerateFailedText]
    ELSE [raised |-> FALSE, text |-> outcome.text]

\* f"{query}\n\n{hypothetical_answer}"
EnhancedQuery(query, hypothetical_answer) ==
    query \o <<"\n\n">> \o hypothetical_answer

\* pre_retrieval_module(query, api_keys): env is the state of the
\* providers (settings key, Gemini client, outcome of the API call)
pre_retrieval_module(query, api_keys, env) ==
    LET hypothetical_answer ==
            IF UsesGroq(api_keys.model)
            THEN GroqGenerateAnswer(api_keys.groq_api_key, env.settings_key,
                                    env.outcome)
            ELSE GeminiGenerateAnswer({"api_key"}, env.client, env.outcome)
    IN  IF hypothetical_answer.raised THEN query
        ELSE EnhancedQuery(query, hypothetical_answer.text)

InitH ==
    /\ Standalone
    /\ \E query \in QueriesH, model \in ModelsH, groq_api_key \in {NoKey, "gsk"},
          settings_key \in {NoKey, "gsk-env"}, has_client \in BOOLEAN,
          outcome \in ProviderOutcomesH :
          rin = [query |-> query,
                 api_keys |-> [model |-> model, groq_api_key |-> groq_api_key],
                 env |-> [settings_key |-> settings_key, client |-> has_client,
                          outcome |-> outcome]]
    /\ rout = [done |-> FALSE]

PreRetrieve ==
    /\ ~rout.done
    /\ rout' = [done |-> TRUE,
                enhanced_query |-> pre_retrieval_module(rin.query, rin.api_keys,
                                                        rin.env)]
    /\ UNCHANGED <<client, vectors, parents, userDocs, nextUpload, faults,
                   idx, del, resp, rin>>

NextH == PreRetrieve

SpecPreRetrieval == InitH /\ [][NextH]_vars

----------------------------------------------------------------------------
(* The stages of one query (orchestrate_rag_flow) and of one indexing call *)
(* (indexing_module), one step per call and per return of a stage.  What   *)
(* a stage returns is drawn in the initial state; rout.events is the       *)
(* sequence of the calls ("start") and returns ("end") so far.             *)

\* orchestrate_rag_flow calls pre_retrieval_module(query): api_keys is {}
DefaultApiKeys == [model |-> DefaultModel, groq_api_key |-> NoKey]
\* "response_style = query_request.response_style or 'auto'"
DefaultResponseStyle == "auto"

MaxRetrieved == 2
MaxChildren == 2
NoText == <<>>
Return == "return"

FirstStage(flow) == IF flow = "query" THEN "pre_retrieval" ELSE "chunking"

\* the query text a stage is called with: retrieval_module(enhanced_query,
\* ...), post_retrieval_module(retrieved_chunks, query, ...),
\* generation_module(query, ...)
StageQuery(stage, query, enhanced_query) ==
    CASE stage = "pre_retrieval"  -> query
      [] stage = "retrieval"      -> enhanced_query
      [] stage = "post_retrieval" -> query
      [] stage = "generation"     -> query
      [] OTHER                    -> NoText

\* generation_module(query, final_context_chunks, chat_history,
\* response_style): the fourth positional parameter is
\* document_descriptions
StageDescriptions(stage) ==
    IF stage = "generation" THEN DefaultResponseStyle ELSE ""

\* what a stage returns: a text, or a number of chunks or vectors
StageResult(stage, in) ==
    CASE stage = "pre_retrieval" ->
            [text |-> pre_retrieval_module(in.query, DefaultApiKeys, in.env),
             count |-> 0]
      [] stage = "retrieval"      -> [text |-> NoText, count |-> in.retrieved]
      [] stage = "post_retrieval" -> [text |-> NoText, count |-> in.selected]
      [] stage = "generation"     -> [text |-> <<GeneratedAnswer>>, count |-> 0]
      [] stage = "chunking"       -> [text |-> NoText, count |-> in.children]
      [] stage = "embedding"      ->
            [text |-> NoText,
             count |-> IF in.batch = "ok" THEN in.children ELSE 0]
      [] stage = "embedding_fallback" ->
            [text |-> NoText, count |-> Cardinality(in.singles)]

\* the mutant: generation is called as soon as retrieval has returned
NextStageNoRerank(stage, result, in) ==
    CASE stage = "pre_retrieval"  -> "retrieval"
      [] stage = "retrieval"      -> IF result.count = 0 THEN Return ELSE "generation"
      [] stage = "post_retrieval" -> Return
      [] stage = "generation"     -> "post_retrieval"
      [] stage = "chunking"       -> IF result.count = 0 THEN Return ELSE "embedding"
      [] stage = "embedding"      ->
            IF in.batch = "raise" THEN "embedding_fallback"
            ELSE IF result.count = 0 THEN Return ELSE "store"
      [] stage = "embedding_fallback" -> IF result.count = 0 THEN Return ELSE "store"

\* what the caller does when a stage has returned: the early returns of
\* orchestrate_rag_flow ("if not retrieved_chunks", "if not
\* final_context_chunks") and of indexing_module ("if not child_chunks",
\* "if not vectors"), the next stage otherwise
NextStage(stage, result, in) ==
    CASE stage = "pre_retrieval"  -> "retrieval"
      [] stage = "retrieval"      -> IF result.count = 0 THEN Return ELSE "post_retrieval"
      [] stage = "post_retrieval" -> IF result.count = 0 THEN Return ELSE "generation"
      [] stage = "generation"     -> Return
      [] stage = "chunking"       -> IF result.count = 0 THEN Return ELSE "embedding"
      [] stage = "embedding"      ->
            IF in.batch = "raise" THEN "embedding_fallback"
            ELSE IF result.count = 0 THEN Return ELSE "store"
      [] stage = "embedding_fallback" -> IF result.count = 0 THEN Return ELSE "store"

\* asyncio.gather(upsert_vectors(vectors), store_parent_chunks(parent_chunks))
StoreTasks == <<"upsert_vectors", "store_parent_chunks">>

StartEvent(stage, query, descriptions) ==
    [ev |-> "start", stage |-> stage, query |-> query,
     document_descriptions |-> descriptions,
     result |-> [text |-> NoText, count |-> 0]]

EndEvent(stage, result) ==
    [ev |-> "end", stage |-> stage, query |-> NoText,
     document_descriptions |-> "", result |-> result]

QueryInputsS ==
    {[flow |-> "query", query |-> query, has_docs |-> has_docs,
      retrieved |-> retrieved, selected |-> selected,
      env |-> [settings_key |-> NoKey, client |-> has_client, outcome |-> outcome],
      children |-> 0, batch |-> "ok", singles |-> {}] :
        query \in QueriesH, has_docs \in BOOLEAN, retrieved \in 0..MaxRetrieved,
        selected \in 0..MaxRetrieved, has_client \in BOOLEAN,
        outcome \in ProviderOutcomesH}

IndexInputsS ==
    {[flow |-> "index", query |-> NoText, has_docs |-> FALSE,
      retrieved |-> 0, selected |-> 0,
      env |-> [settings_key |-> NoKey, client |-> FALSE,
               outcome |-> [raises |-> TRUE, text |-> NoText]],
      children |-> children, batch |-> batch, singles |-> singles] :
        children \in 0..MaxChildren, batch \in {"ok", "padded", "raise"},
        singles \in SUBSET (1..MaxChildren)}

InitS ==
    /\ Standalone
    /\ rin \in QueryInputsS \cup IndexInputsS
    \* post-retrieval selects among the retrieved chunks; the individual
    \* calls are for chunks of the document, after a failed batch call
    /\ rin.selected <= rin.retrieved
    /\ rin.singles \subseteq 1..rin.children
    /\ rin.batch # "raise" => rin.singles = {}
    /\ rout = [pc |-> FirstStage(rin.flow), at |-> "call", events |-> <<>>,
               enhanced_query |-> NoText, running |-> {}]

\* the caller calls the stage it has come to
StartStage ==
    /\ rout.at = "call"
    /\ rout.pc \notin {Return, "store"}
    /\ rout' = [rout EXCEPT
                  !.at = "await",
                  !.events = Append(@, StartEvent(rout.pc,
                                 StageQuery(rout.pc, rin.query, rout.enhanced_query),
                                 StageDescriptions(rout.pc)))]
    /\ UNCHANGED <<client, vectors, parents, userDocs, nextUpload, faults,
                   idx, del, resp, rin>>

\* the awaited stage returns and the caller goes on
EndStage ==
    /\ rout.at = "await"
    /\ rout.pc # "store"
    /\ \E result \in {StageResult(rout.pc, rin)} :
          rout' = [rout EXCEPT
                     !.pc = NextStage(rout.pc, result, rin),
                     !.at = "call",
                     !.enhanced_query =
                         IF rout.pc = "pre_retrieval" THEN result.text ELSE @,
                     !.events = Append(@, EndEvent(rout.pc, result))]
    /\ UNCHANGED <<client, vectors, parents, userDocs, nextUpload, faults,
                   idx, del, resp, rin>>

\* gather starts the two store writes
StartStores ==
    /\ rout.at = "call"
    /\ rout.pc = "store"
    /\ rout' = [rout EXCEPT
                  !.at = "await",
                  !.running = Range(StoreTasks),
                  !.events = @ \o [k \in 1..Len(StoreTasks) |->
                                      StartEvent(StoreTasks[k], NoText, "")]]
    /\ UNCHANGED <<client, vectors, parents, userDocs, nextUpload, faults,
                   idx, del, resp, rin>>

\* one of the running store writes returns; gather returns after the last
EndStore ==
    /\ rout.at = "await"
    /\ rout.pc = "store"
    /\ \E task \in rout.running :
          rout' = [rout EXCEPT
                     !.running = @ \ {task},
                     !.pc = IF rout.running = {task} THEN Return ELSE @,
                     !.at = IF rout.running = {task} THEN "call" ELSE @,
                     !.events = Append(@, EndEvent(task, [text |-> NoText, count |-> 0]))]
    /\ UNCHANGED <<client, vectors, parents, userDocs, nextUpload, faults,
                   idx, del, resp, rin>>

NextS == StartStage \/ EndStage \/ StartStores \/ EndStore

SpecStages == InitS /\ [][NextS]_vars

----------------------------------------------------------------------------
(* _generate_embeddings_individual_fallback in two indexing calls that run *)
(* at the same time.  Each call makes its own Semaphore(10) and gathers    *)
(* one _generate_single_embedding task per child chunk; a task waits for a *)
(* slot of the semaphore of its call, has get_embedding in flight, and is  *)
(* done when get_embedding has returned or raised.  The tasks of a call    *)
(* are counted, not named.                                                 *)

max_concurrent_embeddings == 10
MaxFallbackChunks == 11
MaxOtherChunks == 2
CallsF == {1, 2}

InitF ==
    /\ Standalone
    /\ \E n1 \in 0..MaxFallbackChunks, n2 \in 0..MaxOtherChunks :
          rin = [chunks |-> <<n1, n2>>]
    /\ rout = [waiting |-> rin.chunks, in_flight |-> <<0, 0>>,
               vectors |-> <<0, 0>>, failed |-> <<0, 0>>]

\* "async with semaphore": the slot is taken when one is free
SemaphoreFree(in_flight) == in_flight < max_concurrent_embeddings

\* a task enters "async with semaphore" and calls get_embedding
AcquireAndCall ==
    \E c \in CallsF :
        /\ rout.waiting[c] > 0
        /\ SemaphoreFree(rout.in_flight[c])
        /\ rout' = [rout EXCEPT !.waiting[c] = @ - 1, !.in_flight[c] = @ + 1]
        /\ UNCHANGED <<client, vectors, parents, userDocs, nextUpload, faults,
                       idx, del, resp, rin>>

\* get_embedding returns an embedding, returns [] or raises: the task
\* returns the vector or None and leaves "async with", freeing the slot
ReturnAndRelease ==
    \E c \in CallsF, ok \in BOOLEAN :
        /\ rout.in_flight[c] > 0
        /\ rout' = [rout EXCEPT !.in_flight[c] = @ - 1,
                                !.vectors[c] = IF ok THEN @ + 1 ELSE @,
                                !.failed[c] = IF ok THEN @ ELSE @ + 1]
        /\ UNCHANGED <<client, vectors, parents, userDocs, nextUpload, faults,
                       idx, del, resp, rin>>

NextF == AcquireAndCall \/ ReturnAndRelease

SpecFallback == InitF /\ [][NextF]_vars

----------------------------------------------------------------------------
(* The earlier embedding adapter, service/gemini_service.py, as used by    *)
(* the indexing_module of service/rag_modules_service.py: one singleton    *)
(* GeminiService shared by indexing calls that run at the same time.  An   *)
(* indexing call embeds its child chunks one after the other; a step is    *)
(* the code of get_embedding between two awaits.  Time is in seconds.      *)

\* "if current_time - self.last_embedding_call < 4"
MinInterval == 4
\* "datetime.now() + timedelta(hours=1)"
QuotaWindow == 3600
\* the clock when the process has been up for some time
StartTime == 10
MaxTicks == 3
MaxEmbedCalls == 3
TickSteps == {1, MinInterval, QuotaWindow}
CallersG == {1, 2}
NoTime == 0

NoEntry == [at |-> NoTime, quota_exceeded |-> FALSE, quota_reset_time |-> NoTime]

InitG ==
    /\ Standalone
    /\ \E n1 \in 0..MaxEmbedCalls, n2 \in 0..MaxEmbedCalls :
          /\ n1 + n2 <= MaxEmbedCalls
          /\ n1 >= n2
          /\ rin = [chunks |-> <<n1, n2>>]
    /\ rout = [now |-> StartTime, ticks |-> 0,
               last_embedding_call |-> 0,
               quota_exceeded |-> FALSE, quota_reset_time |-> NoTime,
               pc |-> <<"idle", "idle">>, wake |-> <<NoTime, NoTime>>,
               entry |-> <<NoEntry, NoEntry>>,
               left |-> rin.chunks,
               vectors |-> << <<>>, <<>> >>,
               provider_calls |-> <<>>, returns |-> <<>>,
               pinecone |-> {}]

\* "if self.quota_exceeded: if self.quota_reset_time and datetime.now() <
\* self.quota_reset_time"
QuotaOpen(quota_exceeded, quota_reset_time, now) ==
    quota_exceeded /\ quota_reset_time # NoTime /\ now < quota_reset_time

\* the wait before the provider call: 4 - (current_time - last_embedding_call)
\* when the last successful call is less than 4 seconds old, else none
RateLimitWait(now, last_embedding_call) ==
    IF now - last_embedding_call < MinInterval
    THEN MinInterval - (now - last_embedding_call)
    ELSE 0

\* the state of the service when a provider call starts
ProviderCall(g, c) ==
    [by |-> c, start |-> g.now, quota_exceeded |-> g.quota_exceeded,
     quota_reset_time |-> g.quota_reset_time]

\* indexing_module of rag_modules_service.py: "if embedding and
\* len(embedding) > 0: vectors.append({... 'is_fallback': False ...})"
AppendVector(vecs, kind) ==
    IF kind = "none" THEN vecs
    ELSE Append(vecs, [kind |-> kind, is_fallback |-> FALSE])

\* get_embedding returns to the indexing call
Returned(g, c, kind, entry, called) ==
    [g EXCEPT !.pc[c] = "idle",
              !.entry[c] = NoEntry,
              !.left[c] = @ - 1,
              !.vectors[c] = AppendVector(@, kind),
              !.returns = Append(@, [by |-> c, kind |-> kind, at |-> g.now,
                                     entry |-> entry, called |-> called])]

\* get_embedding from its start to its first await: the quota check, then
\* the rate-limit sleep or the provider call
EnterGetEmbedding ==
    \E c \in CallersG :
        /\ rout.pc[c] = "idle"
        /\ rout.left[c] > 0
        /\ LET entry == [at |-> rout.now, quota_exceeded |-> rout.quota_exceeded,
                         quota_reset_time |-> rout.quota_reset_time]
           IN  IF QuotaOpen(rout.quota_exceeded, rout.quota_reset_time, rout.now)
               THEN rout' = Returned(rout, c, "fallback", entry, FALSE)
               ELSE LET cleared == [rout EXCEPT !.quota_exceeded = FALSE,
                                                !.quota_reset_time = NoTime,
                                                !.entry[c] = entry]
                        wait == RateLimitWait(rout.now, rout.last_embedding_call)
                    IN  IF wait > 0
                        THEN rout' = [cleared EXCEPT !.pc[c] = "sleeping",
                                                     !.wake[c] = rout.now + wait]
                        ELSE rout' = [cleared EXCEPT
                                        !.pc[c] = "calling",
                                        !.provider_calls =
                                            Append(@, ProviderCall(cleared, c))]
        /\ UNCHANGED <<client, vectors, parents, userDocs, nextUpload, faults,
                       idx, del, resp, rin>>

\* asyncio.sleep is over: the provider call starts in the executor
WakeAndCall ==
    \E c \in CallersG :
        /\ rout.pc[c] = "sleeping"
        /\ rout.now >= rout.wake[c]
        /\ rout' = [rout EXCEPT
                      !.pc[c] = "calling",
                      !.wake[c] = NoTime,
                      !.provider_calls = Append(@, ProviderCall(rout, c))]
        /\ UNCHANGED <<client, vectors, parents, userDocs, nextUpload, faults,
                       idx, del, resp, rin>>

\* genai.embed_content returns, raises a quota error or raises another error
ProviderReturns ==
    \E c \in CallersG, outcome \in {"ok", "quota", "error"} :
        /\ rout.pc[c] = "calling"
        /\ rout' =
              CASE outcome = "ok" ->
                     Returned([rout EXCEPT !.last_embedding_call = rout.now],
                              c, "embedding", rout.entry[c], TRUE)
                [] outcome = "quota" ->
                     Returned([rout EXCEPT !.quota_exceeded = TRUE,
                                           !.quota_reset_time = rout.now + QuotaWindow],
                              c, "fallback", rout.entry[c], TRUE)
                [] outcome = "error" ->
                     Returned(rout, c, "none", rout.entry[c], TRUE)
        /\ UNCHANGED <<client, vectors, parents, userDocs, nextUpload, faults,
                       idx, del, resp, rin>>

\* the indexing call has embedded its chunks: "if vectors:
\* pinecone_service.upsert_vectors(vectors)"
UpsertVectors ==
    \E c \in CallersG :
        /\ rout.pc[c] = "idle"
        /\ rout.left[c] = 0
        /\ rout.vectors[c] # <<>>
        /\ rout' = [rout EXCEPT
                      !.pc[c] = "indexed",
                      !.pinecone = @ \cup
                          {[by |-> c, chunk_index |-> k,
                            kind |-> rout.vectors[c][k].kind,
                            is_fallback |-> rout.vectors[c][k].is_fallback] :
                             k \in DOMAIN rout.vectors[c]}]
        /\ UNCHANGED <<client, vectors, parents, userDocs, nextUpload, faults,
                       idx, del, resp, rin>>

\* the clock advances
Tick ==
    /\ rout.ticks < MaxTicks
    /\ \E d \in TickSteps :
          rout' = [rout EXCEPT !.now = @ + d, !.ticks = @ + 1]
    /\ UNCHANGED <<client, vectors, parents, userDocs, nextUpload, faults,
                   idx, del, resp, rin>>

NextG == EnterGetEmbedding \/ WakeAndCall \/ ProviderReturns \/ UpsertVectors \/ Tick

SpecGemini == InitG /\ [][NextG]_vars

----------------------------------------------------------------------------
(* The metadata of a vector record, from the payload of the caller to the  *)
(* record that is upserted.  A dict is a function from its keys.           *)

MetaKeysM == {"content", "parent_id", "username", "description"}
MetaValuesM == {"A", "forged"}
\* every metadata dict a payload can carry over these keys and values
PayloadMetadataM == UNION {[K -> MetaValuesM] : K \in SUBSET MetaKeysM}
ChildM == [id |-> "c1", content |-> "child text", parent_id |-> "p1"]

\* d[k] = v
SetItem(d, k, v) ==
    [x \in DOMAIN d \cup {k} |-> IF x = k THEN v ELSE d[x]]

\* d.pop(k, None)
PopItem(d, k) == [x \in DOMAIN d \ {k} |-> d[x]]

\* {**base, **over}: a later key replaces an earlier one
DictSpread(base, over) ==
    [x \in DOMAIN base \cup DOMAIN over |->
        IF x \in DOMAIN over THEN over[x] ELSE base[x]]

\* process_and_index_document: doc_dict['metadata']['username'] = username
controller_metadata(metadata, username) == SetItem(metadata, "username", username)

\* indexing_module: clean_metadata = metadata.copy(); pop('description')
clean_metadata(metadata) == PopItem(metadata, "description")

\* the "metadata" of a vector: the fields of the child chunk, then
\* **clean_metadata
vector_metadata(child, title, chunk_index, clean) ==
    DictSpread([content |-> child.content, parent_id |-> child.parent_id,
                title |-> title, chunk_index |-> chunk_index,
                is_fallback |-> FALSE],
               clean)

InitM ==
    /\ Standalone
    /\ \E username \in Users, metadata \in PayloadMetadataM :
          rin = [username |-> username, metadata |-> metadata, child |-> ChildM]
    /\ rout = [stage |-> "payload", metadata |-> << >>, vector |-> << >>]

\* the controller hands the document to indexing_module
SetUsernameAndIndex ==
    /\ rout.stage = "payload"
    /\ rout' = [rout EXCEPT
                  !.stage = "indexing",
                  !.metadata = clean_metadata(
                                  controller_metadata(rin.metadata, rin.username))]
    /\ UNCHANGED <<client, vectors, parents, userDocs, nextUpload, faults,
                   idx, del, resp, rin>>

\* the vector of the child chunk, built by _generate_embeddings_batch
BatchVectorMetadata ==
    /\ rout.stage = "indexing"
    /\ rout' = [rout EXCEPT
                  !.stage = "batch",
                  !.vector = [id |-> rin.child.id,
                              metadata |-> vector_metadata(rin.child, "T", 0,
                                                           rout.metadata)]]
    /\ UNCHANGED <<client, vectors, parents, userDocs, nextUpload, faults,
                   idx, del, resp, rin>>

\* the vector of the child chunk, built by _generate_single_embedding
SingleVectorMetadata ==
    /\ rout.stage = "indexing"
    /\ rout' = [rout EXCEPT
                  !.stage = "individual",
                  !.vector = [id |-> rin.child.id,
                              metadata |-> vector_metadata(rin.child, "T", 0,
                                                           rout.metadata)]]
    /\ UNCHANGED <<client, vectors, parents, userDocs, nextUpload, faults,
                   idx, del, resp, rin>>

NextM == SetUsernameAndIndex \/ BatchVectorMetadata \/ SingleVectorMetadata

SpecMetadata == InitM /\ [][NextM]_vars

----------------------------------------------------------------------------
(* get_embeddings_batch of embedding_service.py, one provider call at a    *)
(* time: the loop over the sub-batches and, inside it, the retry loop.     *)

\* "max_retries = 5"
max_retries == 5
\* "base_delay = 5"
base_delay == 5
\* "if wait_time > 60: wait_time = 60"
MaxRetryWait == 60
\* "await asyncio.sleep(2)"
OtherErrorWait == 2
MaxTextsB == 41

\* the text at position i of the input: no two positions hold the same text
TextsB(n, rev) == [i \in 1..n |-> IF rev THEN n + 1 - i ELSE i]

\* the embedding the provider computes for a text; <<>> is the empty list
EmbeddingOfText(text) == <<text>>

\* "batch = texts[i:i + batch_size]", i counted from 0
SubBatch(texts, i) == SubSeq(texts, i + 1, Min(i + batch_size, Len(texts)))

\* "embeddings = [item.values for item in response.embeddings]"
ResponseEmbeddings(batch) == [k \in 1..Len(batch) |-> EmbeddingOfText(batch[k])]

\* the mutant: nothing is added for a failed sub-batch
NoEntries(batch) == <<>>

\* "all_embeddings.extend([[] for _ in batch])"
FailedBatchEntries(batch) == [k \in 1..Len(batch) |-> <<>>]

\* 2 ** attempt
RECURSIVE Pow2(_)
Pow2(attempt) == IF attempt = 0 THEN 1 ELSE 2 * Pow2(attempt - 1)

\* the sleep of the except branch
RetryWait(rate_limited, attempt) ==
    IF rate_limited
    THEN Min(base_delay * Pow2(attempt), MaxRetryWait)
    ELSE OtherErrorWait

InitB ==
    /\ Standalone
    /\ \E n \in 0..MaxTextsB, rev \in BOOLEAN, has_client \in BOOLEAN :
          rin = [texts |-> TextsB(n, rev), has_client |-> has_client]
    /\ rout = [i |-> 0, attempt |-> 0, all_embeddings |-> <<>>,
               calls |-> <<>>, batch_success |-> <<>>, slept |-> 0,
               returned |-> FALSE, result |-> <<>>]

InRetryLoop ==
    /\ ~rout.returned
    /\ rin.has_client
    /\ rout.i < Len(rin.texts)
    /\ rout.attempt < max_retries

\* the provider call of this attempt is counted for the sub-batch
Called(g) ==
    [g EXCEPT !.calls = IF g.attempt = 0 THEN Append(@, 1)
                        ELSE [@ EXCEPT ![Len(@)] = @ + 1]]

\* a failed attempt: the sleep, then the next attempt, or after the last
\* attempt the empty entries and the next sub-batch
AttemptFailed(g, batch, wait) ==
    IF g.attempt + 1 < max_retries
    THEN [Called(g) EXCEPT !.attempt = @ + 1, !.slept = wait]
    ELSE [Called(g) EXCEPT
            !.attempt = 0, !.slept = wait,
            !.i = @ + batch_size,
            !.batch_success = Append(@, FALSE),
            !.all_embeddings = @ \o FailedBatchEntries(batch)]

\* embed_content answers with one embedding per text of the sub-batch
EmbedContentReturns ==
    /\ InRetryLoop
    /\ LET batch == SubBatch(rin.texts, rout.i)
       IN  rout' = [Called(rout) EXCEPT
                      !.attempt = 0, !.slept = 0,
                      !.i = @ + batch_size,
                      !.batch_success = Append(@, TRUE),
                      !.all_embeddings = @ \o ResponseEmbeddings(batch)]
    /\ UNCHANGED <<client, vectors, parents, userDocs, nextUpload, faults,
                   idx, del, resp, rin>>

\* embed_content answers with too few embeddings: "raise
\* ValueError('Incomplete batch response')"
EmbedContentIncomplete ==
    /\ InRetryLoop
    /\ rout' = AttemptFailed(rout, SubBatch(rin.texts, rout.i),
                             RetryWait(FALSE, rout.attempt))
    /\ UNCHANGED <<client, vectors, parents, userDocs, nextUpload, faults,
                   idx, del, resp, rin>>

\* embed_content raises, with a rate-limit error or with another error
EmbedContentRaises ==
    /\ InRetryLoop
    /\ \E rate_limited \in BOOLEAN :
          rout' = AttemptFailed(rout, SubBatch(rin.texts, rout.i),
                                RetryWait(rate_limited, rout.attempt))
    /\ UNCHANGED <<client, vectors, parents, userDocs, nextUpload, faults,
                   idx, del, resp, rin>>

\* "return all_embeddings", or "return []" for no texts and for no client
ReturnEmbeddings ==
    /\ ~rout.returned
    /\ ~rin.has_client \/ rout.i >= Len(rin.texts)
    /\ rout' = [rout EXCEPT
                  !.returned = TRUE,
                  !.result = IF rin.texts = <<>> \/ ~rin.has_client THEN <<>>
                             ELSE rout.all_embeddings]
    /\ UNCHANGED <<client, vectors, parents, userDocs, nextUpload, faults,
                   idx, del, resp, rin>>

NextB ==
    EmbedContentReturns \/ EmbedContentIncomplete \/ EmbedContentRaises
        \/ ReturnEmbeddings

SpecBatch == InitB /\ [][NextB]_vars

\* an awaited call or sleep comes back and the coroutine runs on
SpecBatchFair == SpecBatch /\ WF_vars(NextB)

----------------------------------------------------------------------------
(* Properties *)

VectorsOf(username) == {v \in vectors : v.username = username}

\* C1 (Spec): a query of user A uses only vector matches whose metadata
\* username is A, and every parent id it selects or returns is the parent
\* id of a vector of A.
C1_TenantIsolation ==
    resp.op = "query" =>
        /\ \A m \in resp.matches : m.username = resp.user
        /\ \A p \in resp.parent_ids \cup resp.chunks :
               \E v \in VectorsOf(resp.user) : v.parent_id = p

\* a query answered from a store that also holds another tenant's vectors
\* of the same file
C1_Witness ==
    /\ resp.op = "query"
    /\ resp.chunks # {}
    /\ \E v \in vectors, w \in vectors :
          /\ v.username = resp.user
          /\ w.username # resp.user
          /\ w.source_filename = v.source_filename

BestMatch == rin.matches[1]

\* C2 (SpecRetrieval): when the query matched vectors and none reaches the
\* threshold, retrieval goes on with all the matches: the parent of the
\* best match is selected first and, when the parent store holds it, it is
\* returned with the score of that match.
C2_ThresholdFallback ==
    (/\ rout.done
     /\ rin.matches # <<>>
     /\ \A i \in DOMAIN rin.matches : rin.matches[i].score < rout.threshold)
    => /\ rout.filtered = rin.matches
       /\ rout.parent_ids # <<>>
       /\ rout.parent_ids[1] = BestMatch.parent_id
       /\ (rout.fetchOk /\ BestMatch.parent_id \in rout.pstore)
             => \E i \in DOMAIN rout.chunks :
                   /\ rout.chunks[i].id = BestMatch.parent_id
                   /\ rout.chunks[i].retrieval_score = BestMatch.score

\* threshold 0.99, best match 0.5, and its parent comes back
C2_Witness ==
    /\ rout.done
    /\ rout.threshold = 99
    /\ rin.matches # <<>>
    /\ BestMatch.score = 50
    /\ \E i \in DOMAIN rout.chunks : rout.chunks[i].id = BestMatch.parent_id

FilteredParents == {rout.filtered[i].parent_id : i \in DOMAIN rout.filtered}

\* C3 (SpecRetrieval): the parent ids selected are distinct; when the
\* filtered matches name at least 3 parents, at least 3 are selected; a
\* parent of the filtered matches is left out only when 3 are selected.
C3_MinimumDiversity ==
    rout.done =>
        /\ Cardinality(Range(rout.parent_ids)) = Len(rout.parent_ids)
        /\ Cardinality(FilteredParents) >= 3 => Len(rout.parent_ids) >= 3
        /\ FilteredParents # Range(rout.parent_ids) => Len(rout.parent_ids) >= 3

\* four parents in the filtered matches, one of them left out by the
\* content hash
C3_Witness ==
    /\ rout.done
    /\ Cardinality(FilteredParents) = 4
    /\ Len(rout.parent_ids) = 3

\* the scores of the matches of a parent among the matches retrieval used
ChildScores(parent_id) ==
    {rout.filtered[i].score :
        i \in {j \in DOMAIN rout.filtered : rout.filtered[j].parent_id = parent_id}}

\* C23 (SpecRetrieval): for matches in descending score order, every
\* parent chunk returned has as retrieval_score the highest score of the
\* matches of that parent among the matches used, and the chunks are
\* returned in descending order of retrieval_score.
C23_BestChildScore ==
    rout.done =>
        /\ \A k \in DOMAIN rout.chunks :
              /\ rout.chunks[k].retrieval_score \in ChildScores(rout.chunks[k].id)
              /\ \A sc \in ChildScores(rout.chunks[k].id) :
                    sc <= rout.chunks[k].retrieval_score
        /\ \A k \in 1..(Len(rout.chunks) - 1) :
              rout.chunks[k].retrieval_score >= rout.chunks[k + 1].retrieval_score

\* C24 (SpecRetrieval): when the fetch of the parent chunks works, the
\* chunks returned are exactly the selected parent ids that the
\* parent-chunk store holds, each once: a missing parent chunk is skipped,
\* and nothing is returned only when no selected parent is in the store.
\* When the fetch fails, no parent resolves and nothing is returned.
C24_OrphanTolerance ==
    rout.done =>
        /\ {rout.chunks[k].id : k \in DOMAIN rout.chunks}
              = (IF rout.fetchOk THEN Range(rout.parent_ids) \cap rout.pstore ELSE {})
        /\ \A k, l \in DOMAIN rout.chunks :
              rout.chunks[k].id = rout.chunks[l].id => k = l

\* a selected parent is missing from the store and another is returned
C24_Witness ==
    /\ rout.done
    /\ rout.fetchOk
    /\ Range(rout.parent_ids) \ rout.pstore # {}
    /\ Len(rout.chunks) >= 2

\* C4 (Spec): after delete_documents found the documents of the filenames
\* in the user's list, no vector of that user and filename, none of their
\* parent chunks and no list entry is left.
C4_DeleteCompleteness ==
    (del.op = "delete" /\ del.found) =>
        /\ \A v \in vectors :
              ~(v.username = del.user /\ v.source_filename \in del.filenames)
        /\ parents \cap del.parent_ids = {}
        /\ \A d \in userDocs :
              ~(d.username = del.user /\ d.filename \in del.filenames)

\* C5 (Spec): a query of a user whose document list is empty is answered
\* with the "You haven't uploaded any documents yet" message.
C5_NoDocumentsMessage ==
    (resp.op = "query" /\ \A d \in userDocs : d.username # resp.user)
        => resp.answer = NoDocumentsMsg

\* C6 (Spec): the parent_id of every vector is the id of a stored parent
\* chunk.
C6_ReferentialIntegrity ==
    \A v \in vectors : v.parent_id \in parents

\* C7 (Spec): when the vector upsert or the parent-chunk write of an
\* indexing call fails, the call returns no ids, the controller answers
\* HTTP 500 and the document is not put on the user's list.
C7_StorageFailureFatal ==
    (idx.op = "index" /\ idx.stored /\ (~idx.upsertRet \/ ~idx.storeRet)) =>
        /\ idx.chunk_ids = <<>>
        /\ idx.parent_ids = <<>>
        /\ idx.http = 500
        /\ ~idx.listed
        /\ \A d \in userDocs : d.upload # idx.upload

\* the parent-chunk write failed after the vectors had been upserted
C7_Witness ==
    /\ idx.op = "index"
    /\ idx.stored
    /\ idx.upsertRet
    /\ ~idx.storeRet
    /\ \E v \in vectors : v.id[1] = idx.upload

\* C8 (Spec): when no child chunk is embedded, indexing_module returns
\* chunk_ids = [] and parent_ids = [] and neither store receives anything
\* of this call.
C8_NoEmbeddingsEmptyResult ==
    (idx.op = "index" /\ idx.embedded = {}) =>
        /\ idx.chunk_ids = <<>>
        /\ idx.parent_ids = <<>>
        /\ ~idx.stored
        /\ \A v \in vectors : v.id[1] # idx.upload
        /\ \A p \in parents : p[1] # idx.upload

\* a document with child chunks, a working client, and no embedding
C8_Witness ==
    /\ idx.op = "index"
    /\ client
    /\ idx.children # {}
    /\ idx.parentsMade # {}
    /\ idx.embedded = {}

VectorIdsOfUpload(u) == {v.id : v \in {w \in vectors : w.id[1] = u}}

\* C9 as stated (Spec): after an indexing call that reports success the
\* vector store holds a vector for every child chunk of the document and
\* chunk_ids names exactly the child chunks.
C9_OneVectorPerChildChunk ==
    (idx.op = "index" /\ idx.http = 200) =>
        /\ VectorIdsOfUpload(idx.upload) = idx.children
        /\ Range(idx.chunk_ids) = idx.children

\* C9 amended (Spec): after an indexing call that reports success the
\* vector store holds exactly one vector for every child chunk that was
\* embedded and none for the others, and chunk_ids names exactly the
\* embedded child chunks.
C9_OneVectorPerEmbeddedChunk ==
    (idx.op = "index" /\ idx.http = 200) =>
        /\ VectorIdsOfUpload(idx.upload) = idx.embedded
        /\ idx.embedded \subseteq idx.children
        /\ \A v \in vectors, w \in vectors : v.id = w.id => v = w
        /\ Range(idx.chunk_ids) = idx.embedded
        /\ Len(idx.chunk_ids) = Cardinality(idx.embedded)

\* success reported although one child chunk got no embedding
C9_Witness ==
    /\ idx.op = "index"
    /\ idx.http = 200
    /\ idx.embedded # idx.children
    /\ idx.embedded # {}

\* C10 (Spec): every child chunk the batch call gave no embedding for is
\* attempted again by an individual embedding call.
C10_FailedChunksRetried ==
    idx.op = "index" => idx.batchFailed \subseteq idx.individual

----------------------------------------------------------------------------
(* Properties of the chunking engine (SpecChunking) *)

\* t is cut from s: a run of consecutive characters of s
IsCutFrom(t, s) ==
    \E i \in 1..(Len(s) + 1) :
        /\ i + Len(t) - 1 <= Len(s)
        /\ t = SubSeq(s, i, i + Len(t) - 1)

ParentsWithId(id) ==
    {i \in DOMAIN rout.parent_chunks : rout.parent_chunks[i].id = id}

\* C11 (SpecChunking): every child chunk of a chunking call has the id of
\* exactly one parent chunk of the same call as parent_id, and its content
\* is a non-empty run of characters cut from that parent's content.
C11_ChildParentIntegrity ==
    rout.done =>
        \A k \in DOMAIN rout.child_chunks :
            LET c == rout.child_chunks[k] IN
            /\ Cardinality(ParentsWithId(c.parent_id)) = 1
            /\ c.content # <<>>
            /\ \A i \in ParentsWithId(c.parent_id) :
                  IsCutFrom(c.content, rout.parent_chunks[i].content)

\* two parent chunks, each with a child chunk
C11_Witness ==
    /\ rout.done
    /\ Len(rout.parent_chunks) >= 2
    /\ \A i \in DOMAIN rout.parent_chunks :
          \E k \in DOMAIN rout.child_chunks :
              rout.child_chunks[k].parent_id = rout.parent_chunks[i].id

\* position pos of the content (from 0) is held by a parent chunk
Covered(pos) ==
    \E i \in DOMAIN rout.parent_chunks :
        rout.parent_chunks[i].lo <= pos /\ pos <= rout.parent_chunks[i].hi

\* every parent chunk is cut from at most size characters of the content
ParentsWithinSize ==
    \A i \in DOMAIN rout.parent_chunks :
        LET p == rout.parent_chunks[i] IN
        /\ p.end - p.start <= rin.size
        /\ Len(p.content) <= p.end - p.start
        /\ p.content = SubSeq(rin.content, p.lo + 1, p.hi + 1)

\* C12 as stated (SpecChunking): for a content of length L >= the window
\* size, the parent chunks together hold every position of the content up
\* to L, and none is cut from more than the window size.
C12_ChunkingCoverage ==
    (rout.done /\ Len(rin.content) >= rin.size) =>
        /\ \A pos \in 0..(Len(rin.content) - 1) : Covered(pos)
        /\ ParentsWithinSize

\* C12 amended (SpecChunking): for a content of length L >= the window
\* size, the windows follow each other without a gap, the parent chunks
\* together hold every position of the content whose character is not
\* whitespace (a window is stripped of the whitespace at its ends, and a
\* window of whitespace only gives no parent chunk), and none is cut from
\* more than the window size.
C12_ChunkingCoverageOfText ==
    (rout.done /\ Len(rin.content) >= rin.size) =>
        /\ \A pos \in 0..(Len(rin.content) - 1) :
              /\ rin.content[pos + 1] \notin Whitespace => Covered(pos)
              /\ \E k \in 0..Len(rin.content) :
                    LET start == k * (rin.size - rin.overlap) IN
                    start <= pos /\ pos < start + rin.size
        /\ ParentsWithinSize

\* a content of three windows of which a whitespace position is in no
\* parent chunk
C12_Witness ==
    /\ rout.done
    /\ Len(rin.content) >= rin.size
    /\ Len(rout.parent_chunks) >= 3
    /\ \E pos \in 0..(Len(rin.content) - 1) : ~Covered(pos)

ChildContents == [k \in DOMAIN rout.child_chunks |-> rout.child_chunks[k].content]

IsHelloWorldCall ==
    /\ rout.done
    /\ rin.content = HelloWorld
    /\ rin.size = parent_chunk_size
    /\ rin.overlap = chunk_overlap
    /\ rin.minlen = MinSentenceChars

\* C13 as stated (SpecChunking): "Hello world. This is a test." chunked
\* with parent_chunk_size = 1000 gives exactly 1 parent chunk and the 2
\* child chunks "Hello world." and "This is a test.".
C13_HelloWorldTwoChildren ==
    IsHelloWorldCall =>
        /\ Len(rout.parent_chunks) = 1
        /\ ChildContents = <<SubSeq(HelloWorld, 1, 12), SubSeq(HelloWorld, 14, 28)>>

\* C13 amended (SpecChunking): "Hello world. This is a test." chunked with
\* parent_chunk_size = 1000 gives exactly 1 parent chunk, holding the whole
\* document, and no child chunk: its two sentences have 12 and 15
\* characters and only a sentence of more than 20 becomes a child chunk.
C13_HelloWorldNoChild ==
    IsHelloWorldCall =>
        /\ Len(rout.parent_chunks) = 1
        /\ rout.parent_chunks[1].content = HelloWorld
        /\ rout.child_chunks = <<>>
        /\ Len(SubSeq(HelloWorld, 1, 12)) <= MinSentenceChars
        /\ Len(SubSeq(HelloWorld, 14, 28)) <= MinSentenceChars

\* the document of the scenario has been chunked
C13_Witness ==
    /\ IsHelloWorldCall
    /\ rout.parent_chunks # <<>>

\* the user's list entries for the file of the last indexing call
EntriesOfIndexedFile ==
    {d \in userDocs : d.username = idx.user /\ d.filename = idx.filename}

\* C16 (Spec): after a successful indexing call for a filename, the user's
\* list holds exactly one entry for that filename, and the stores hold
\* vectors and parent chunks of that user and filename from this upload
\* only.
C16_ReuploadReplaces ==
    (idx.op = "index" /\ idx.http = 200 /\ idx.listed) =>
        /\ Cardinality(EntriesOfIndexedFile) = 1
        /\ \A v \in vectors :
              (v.username = idx.user /\ v.source_filename = idx.filename)
                  => v.id[1] = idx.upload
        /\ \A d \in EntriesOfIndexedFile :
              d.upload # idx.upload => d.parent_ids \cap parents = {}

----------------------------------------------------------------------------
(* Properties of pre_retrieval_module (SpecPreRetrieval) *)

\* the provider the call goes to gives no passage: it has no client or
\* its API call raises
ProviderFails ==
    \/ rin.env.outcome.raises
    \/ UsesGroq(rin.api_keys.model)
         /\ ~GroqClient(rin.api_keys.groq_api_key, rin.env.settings_key)
    \/ ~UsesGroq(rin.api_keys.model) /\ ~rin.env.client

\* C15 (SpecPreRetrieval): when the generation provider fails while
\* producing the hypothetical passage, pre_retrieval_module returns the
\* unmodified query; a result other than the query is the query, a blank
\* line and the passage the provider generated.
C15_HyDEFallback ==
    rout.done =>
        /\ ProviderFails => rout.enhanced_query = rin.query
        /\ rout.enhanced_query # rin.query =>
              /\ ~rin.env.outcome.raises
              /\ rout.enhanced_query =
                    EnhancedQuery(rin.query, rin.env.outcome.text)

----------------------------------------------------------------------------
(* Properties of get_embeddings_batch (SpecBatchFair) *)

\* the sub-batch, counted from 1, that holds position i of the input
BatchOf(i) == ((i - 1) \div batch_size) + 1

\* no sub-batch has more than 5 provider calls, and what is returned has one
\* entry per text, in order: the embedding of the text, or the empty list
\* when the sub-batch of the text failed on all its attempts
BatchResultAligned ==
    rin.has_client =>
        /\ \A b \in DOMAIN rout.calls : rout.calls[b] <= max_retries
        /\ rout.returned =>
              /\ Len(rout.result) = Len(rin.texts)
              /\ \A i \in DOMAIN rin.texts :
                    IF rout.batch_success[BatchOf(i)]
                    THEN rout.result[i] = EmbeddingOfText(rin.texts[i])
                    ELSE /\ rout.result[i] = <<>>
                         /\ rout.calls[BatchOf(i)] = max_retries

----------------------------------------------------------------------------
(* Properties of the vector metadata (SpecMetadata) *)

\* C28 (SpecMetadata): whatever keys the metadata of the payload has,
\* the vector written for a child chunk has the content and the parent_id
\* of that chunk and the username of the authenticated uploader.
C28_RequiredFieldsKept ==
    rout.stage \in {"batch", "individual"} =>
        /\ rout.vector.metadata["content"] = rin.child.content
        /\ rout.vector.metadata["parent_id"] = rin.child.parent_id
        /\ rout.vector.metadata["username"] = rin.username

\* The username of a vector is the authenticated uploader's (SpecMetadata).
UsernameKept ==
    rout.stage \in {"batch", "individual"} =>
        rout.vector.metadata["username"] = rin.username

----------------------------------------------------------------------------
(* Properties of the earlier embedding adapter (SpecGemini) *)

\* C26 (SpecGemini): a vector whose embedding is the pseudo-embedding of
\* the quota fallback is not stored as a normal vector: its record is
\* marked is_fallback.
C26_FallbackNeverPromoted ==
    \A v \in rout.pinecone : v.kind = "fallback" => v.is_fallback

\* C27 (SpecGemini): any two provider calls made through get_embedding
\* start at least 4 seconds apart.
C27_MinimumInterval ==
    \A i, j \in DOMAIN rout.provider_calls :
        i < j => rout.provider_calls[j].start - rout.provider_calls[i].start
                    >= MinInterval

\* the quota flag was set and the reset time not passed at a recorded moment
OpenAt(e, now) == e.quota_exceeded /\ now < e.quota_reset_time

\* the quota flag was set and the reset time reached at a recorded moment
ExpiredAt(e, now) == e.quota_exceeded /\ now >= e.quota_reset_time

\* C30 as stated (SpecGemini): while quota_exceeded is set and the reset
\* time has not passed, no call reaches the provider and every
\* get_embedding returns the fallback vector.
C30_QuotaCircuitBreaker ==
    /\ \A i \in DOMAIN rout.provider_calls :
          ~OpenAt(rout.provider_calls[i], rout.provider_calls[i].start)
    /\ OpenAt(rout, rout.now) =>
          \A i \in DOMAIN rout.returns :
              rout.returns[i].at = rout.now /\ i = Len(rout.returns)
                  => rout.returns[i].kind = "fallback"

\* The breaker as each call sees it at its start (SpecGemini): a quota
\* error sets quota_exceeded with a reset time one hour ahead; a
\* get_embedding that starts while the flag is set and the reset time has
\* not passed makes no provider call and returns the fallback vector; a
\* get_embedding that starts with the flag set at or after the reset time
\* clears the flag and calls the provider.
QuotaCircuitBreakerAtEntry ==
    /\ rout.quota_exceeded =>
          \E i \in DOMAIN rout.returns :
              /\ rout.returns[i].called
              /\ rout.returns[i].kind = "fallback"
              /\ rout.quota_reset_time = rout.returns[i].at + QuotaWindow
    /\ \A i \in DOMAIN rout.returns :
          /\ OpenAt(rout.returns[i].entry, rout.returns[i].entry.at) =>
                (~rout.returns[i].called /\ rout.returns[i].kind = "fallback")
          /\ ExpiredAt(rout.returns[i].entry, rout.returns[i].entry.at) =>
                rout.returns[i].called

\* a quota error, a call answered by the fallback within the hour, and a
\* call at the reset time that reached the provider
QuotaCircuitBreakerCycle ==
    \E i, j, k \in DOMAIN rout.returns :
        /\ i < j /\ j < k
        /\ rout.returns[i].called /\ rout.returns[i].kind = "fallback"
        /\ OpenAt(rout.returns[j].entry, rout.returns[j].entry.at)
        /\ rout.returns[j].kind = "fallback"
        /\ rout.returns[k].entry.quota_exceeded
        /\ rout.returns[k].entry.at = rout.returns[i].at + QuotaWindow
        /\ rout.returns[k].called

----------------------------------------------------------------------------
(* Properties of the per-chunk embedding fallback (SpecFallback) *)

\* C25 (SpecFallback): with indexing calls running at the same time, the
\* per-chunk fallback never has more than max_concurrent_embeddings (10)
\* calls of the embedding provider in flight.
C25_BoundedFallbackConcurrency ==
    rout.in_flight[1] + rout.in_flight[2] <= max_concurrent_embeddings

----------------------------------------------------------------------------
(* Properties of the stage order (SpecStages) *)

Started(stage) ==
    \E i \in DOMAIN rout.events :
        rout.events[i].ev = "start" /\ rout.events[i].stage = stage

Ended(stage) ==
    \E i \in DOMAIN rout.events :
        rout.events[i].ev = "end" /\ rout.events[i].stage = stage

\* stage 2 or stage 3 of the query has returned no chunk
EmptyStageResult ==
    \E i \in DOMAIN rout.events :
        /\ rout.events[i].ev = "end"
        /\ rout.events[i].stage \in {"retrieval", "post_retrieval"}
        /\ rout.events[i].result.count = 0

\* C17 (SpecStages): when stage 2 or stage 3 has returned no chunk for a
\* user who has documents, the query does not return without having
\* called the generation stage.
C17_GenerationOnEmptyRetrieval ==
    (rin.flow = "query" /\ rout.pc = Return /\ rin.has_docs /\ EmptyStageResult)
        => Started("generation")

\* the stages that must have returned before a stage is called
Predecessors(stage) ==
    CASE stage = "retrieval"           -> {"pre_retrieval"}
      [] stage = "post_retrieval"      -> {"pre_retrieval", "retrieval"}
      [] stage = "generation"          -> {"pre_retrieval", "retrieval", "post_retrieval"}
      [] stage = "embedding"           -> {"chunking"}
      [] stage = "embedding_fallback"  -> {"chunking", "embedding"}
      [] stage \in Range(StoreTasks)   -> {"chunking", "embedding"}
      [] OTHER                         -> {}

EndBefore(stage, i) ==
    \E j \in 1..(i - 1) :
        rout.events[j].ev = "end" /\ rout.events[j].stage = stage

ResultOf(stage) ==
    (CHOOSE e \in Range(rout.events) : e.ev = "end" /\ e.stage = stage).result

\* C18 (SpecStages): a stage is called only when every stage before it has
\* returned (pre-retrieval, retrieval, post-retrieval, generation in a
\* query; chunking, embedding, the store writes in an indexing call), and
\* every stage called earlier has returned, the two store writes, which
\* run together, excepted.  Retrieval is called with the text
\* pre-retrieval returned, post-retrieval and generation with the query.
C18_StrictStageOrder ==
    \A i \in DOMAIN rout.events :
        LET e == rout.events[i]
        IN  e.ev = "start" =>
              /\ \A p \in Predecessors(e.stage) : EndBefore(p, i)
              /\ \A j \in 1..(i - 1) :
                    (/\ rout.events[j].ev = "start"
                     /\ ~(rout.events[j].stage \in Range(StoreTasks)
                            /\ e.stage \in Range(StoreTasks)))
                        => EndBefore(rout.events[j].stage, i)
              /\ e.stage = "retrieval" => e.query = ResultOf("pre_retrieval").text
              /\ e.stage \in {"post_retrieval", "generation"} => e.query = rin.query

\* a query that went through its four stages
C18_Witness ==
    /\ rin.flow = "query"
    /\ rout.pc = Return
    /\ Len(rout.events) = 8
    /\ Ended("generation")

----------------------------------------------------------------------------
(* Properties of post_retrieval_module (SpecKeepCount, SpecPostRetrieval) *)

\* C14 (SpecKeepCount): for a fixed target_count >= 1, keep_count is
\* int(1.5 * target) when the chunks are at least 2 * target, int(1.2 *
\* target) when they are at least target and all of them otherwise, never
\* more than the chunks, and it does not decrease when one chunk is added.
C14_KeepCountMonotonic ==
    rout.done =>
        LET n == rin.n
            t == rin.target_count
        IN  /\ rout.keep_count <= rout.keep_count_next
            /\ rout.keep_count <= n
            /\ n >= 2 * t => rout.keep_count = Min((3 * t) \div 2, n)
            /\ (n >= t /\ n < 2 * t) => rout.keep_count = Min((12 * t) \div 10, n)
            /\ n < t => rout.keep_count = n

\* the step from the middle tier to the selective one: 2 * target - 1
\* chunks, then 2 * target
C14_Witness ==
    /\ rout.done
    /\ rin.target_count = 5
    /\ rin.n = 9
    /\ rout.keep_count = 6
    /\ rout.keep_count_next = 7

FinalBelowMin ==
    {k \in DOMAIN rout.final : rout.final[k].score < rin.min_relevance_score}

GateRetained == rout.done /\ ~rout.raised /\ rout.gated # <<>>

\* C19 as stated (SpecPostRetrieval): when the gate retains a chunk, every
\* chunk of the output has a rerank score >= min_relevance_score, except
\* for at most 2 chunks whose score is above 0.15; no chunk scoring 0.15 or
\* less is in the output.
C19_QualityGate ==
    GateRetained =>
        /\ Cardinality(FinalBelowMin) <= MaxExtras
        /\ \A k \in FinalBelowMin : rout.final[k].score > ExtraFloor

\* C19 amended (SpecPostRetrieval): when the gate retains a chunk, an
\* output of more than 3 chunks holds only chunks scoring >=
\* min_relevance_score and at most 2 chunks scoring above 0.15; an output
\* of at most 3 chunks can also hold chunks scoring 0.15 or less, added
\* because fewer than 3 were retained, and these score above 0.01.  Every
\* chunk of the output carries its rerank score as final_score.
C19_QualityGateWithTopUp ==
    GateRetained =>
        /\ Len(rout.final) > FallbackCount =>
              /\ Cardinality(FinalBelowMin) <= MaxExtras
              /\ \A k \in FinalBelowMin : rout.final[k].score > ExtraFloor
        /\ \A k \in DOMAIN rout.final :
              /\ rout.final[k].score > HardFloor
              /\ rout.final[k].final_score = rout.final[k].score
        /\ \A k \in DOMAIN rout.gated :
              \/ rout.gated[k].score >= rin.min_relevance_score
              \/ rout.gated[k].score > ExtraFloor /\ k <= MaxExtras

\* the gate retained a chunk and the output holds one scoring 0.15 or less
C19_Witness ==
    /\ GateRetained
    /\ \E k \in DOMAIN rout.final : rout.final[k].score <= ExtraFloor
    /\ \E k \in DOMAIN rout.gated : rout.gated[k].score >= rin.min_relevance_score

\* C20 (SpecPostRetrieval): when the reranker returns at least one chunk,
\* the output is not empty; when the gate retains nothing, the output is
\* the first min(3, n) of the n reranked chunks, whatever their scores.
C20_AbsoluteFallback ==
    (rout.done /\ ~rout.raised /\ rout.reranked # <<>>) =>
        /\ rout.final # <<>>
        /\ rout.gated = <<>> =>
              rout.final = [k \in 1..Min(FallbackCount, Len(rout.reranked)) |->
                               WithFinalScore(rout.reranked[k])]

\* four reranked chunks, none above 0.15: the first three are returned
C20_Witness ==
    /\ rout.done
    /\ ~rout.raised
    /\ Len(rout.reranked) = 4
    /\ rout.gated = <<>>
    /\ Len(rout.final) = 3
    /\ rout.final[1].score = HardFloor

\* C21 (SpecPostRetrieval): on every path, the exception fallback
\* included, post_retrieval_module returns at most max(target_count, 8)
\* chunks and at most as many chunks as it was given.
C21_OutputCap ==
    rout.done =>
        /\ Len(rout.final) <= Max(rin.target_count, CapFloor)
        /\ Len(rout.final) <= Len(rin.chunks)

\* nine chunks passed the gate and eight are returned
C21_Witness ==
    /\ rout.done
    /\ ~rout.raised
    /\ Len(rout.gated) = CapFloor + 1
    /\ Len(rout.final) = CapFloor

\* C22 (SpecPostRetrieval): every chunk of a non-empty output of
\* post_retrieval_module carries a final_score, also when the reranker
\* raised.
C22_FinalScoreAttached ==
    rout.done =>
        \A k \in DOMAIN rout.final : rout.final[k].final_score # NoScore

====
